---- MODULE Spec2Model ----
(***************************************************************************)
(* Model of the FixIT front end: the collaborative annotation store        *)
(* (hooks/useAnnotations + hooks/useWebSocket), the HUD tracking overlay   *)
(* (components/VideoCapture.jsx) and the two-strategy detection overlay    *)
(* (the VideoCapture variant with the AI-vision toggle).                   *)
(*                                                                         *)
(* Every callback of the browser's event loop is one action.  An `await`   *)
(* splits a callback into steps; a continuation that is resumed from the   *)
(* microtask queue runs before any other task may start.                   *)
(***************************************************************************)
EXTENDS Integers, Sequences, FiniteSets, TLC

VARIABLES
    \* ---- annotation store and sync channel, one entry per client ----
    annotations,     \* useAnnotations: the `annotations` state, a sequence
    wsState,         \* readyState of the socket the client holds
    reconnectTimer,  \* useWebSocket: reconnectTimeout armed
    wire,            \* frames handed to websocket.send, not yet relayed
    lastOp,          \* history: the callback that ran last
    missed,          \* history: some mutation or frame never reached a peer
    closes,          \* history: close events a client's sockets have had
    liveSockets,     \* sockets of a client that are connecting or open
    \* ---- the overlay view (one VideoCapture component instance) ----
    mounted,         \* the component is mounted (videoRef.current is set)
    camPc,           \* position of setupCamera
    stream,          \* the MediaStream of getUserMedia: none, live or stopped
    detector,        \* the `detector` state: null, or the detector singleton
    isDetecting,     \* the `isDetecting` state
    detectedBox,     \* the `detectedBox` state
    loopPc,          \* detectLoop: off, scheduled (rAF pending) or await
    loopResult,      \* what the pending detectBottle promise resolves to
    trackingStatus,  \* HUD overlay: the `trackingStatus` state
    lastOutcome,     \* history: what the last detection attempt did
    useVision,       \* two-strategy overlay: the `useVision` state
    visionTimer,     \* the setInterval of the vision effect is armed
    inflight,        \* remote requests in flight: [cur, stale], cur those the
                     \* running vision effect issued, stale those of an
                     \* effect that has been cleaned up
    \* ---- one call of a function of the detector or of a draw pass ----
    input,           \* the arguments of the call
    output,          \* its result, once it has returned
    \* ---- the draw effect of one overlay component ----
    rafQueue,        \* the pending requestAnimationFrame(draw) callbacks, in
                     \* the order they were requested, each with the values
                     \* its closure holds
    lastPass,        \* history: what the draw pass that ran last drew
    \* ---- the useWebSocket hook of the session, with its teardown ----
    connected,       \* the `connected` state of the hook
    cleanedUp,       \* the cleanup of the hook's effect has run
    \* ---- the detector singleton and the calls of getDetector ----
    detectorInstance, \* the module variable: null, or the YOLODetector
    callPc,          \* position of each caller's getDetector call
    handed           \* history: the state of the load when the call resolved

\* The connection counters; only SpecChannel keeps them.
chanVars == <<closes, liveSockets>>

storeVars == <<annotations, wsState, reconnectTimer, wire, lastOp, missed,
               closes, liveSockets>>

viewVars == <<mounted, camPc, stream, detector, isDetecting, detectedBox, loopPc,
              loopResult, trackingStatus, lastOutcome, useVision, visionTimer,
              inflight>>

callVars == <<input, output>>

renderVars == <<rafQueue, lastPass>>

hookVars == <<connected, cleanedUp>>

loaderVars == <<detectorInstance, callPc, handed>>

vars == <<annotations, wsState, reconnectTimer, wire, lastOp, missed,
          closes, liveSockets,
          mounted, camPc, stream, detector, isDetecting, detectedBox, loopPc,
          loopResult, trackingStatus, lastOutcome, useVision, visionTimer,
          inflight, input, output, rafQueue, lastPass, connected, cleanedUp,
          detectorInstance, callPc, handed>>

----------------------------------------------------------------------------
\* Bounds of the model.
MaxAnns == 2     \* longest annotation sequence a client holds
MaxWire == 2     \* most frames in flight at the server, all clients together

\* Values Date.now() returns; two calls may fall in the same millisecond.
Times == {1, 2}

Clients == {"A", "B"}

\* The value `null` (also standing for an absent id); App.resetApp passes it.
Null == -1

\* The value `null` of the detectedBox state and of detectBottle's result.
NoBox == [class |-> "null"]

\* Ids a caller may pass to add or remove: null, the falsy 0, or a timestamp.
InputIds == {Null, 0} \cup Times

\* Ids removeAnnotation can be called with: the id of a marker the client
\* shows (StructurePanel's remove button), or null (App.resetApp).
RemoveIds == {Null} \cup Times

\* handleClick of the model viewer: a click hands on the point hit, the time
\* of the click as id, and one fixed label.
HandleClick(point, now) == [position |-> point, id |-> now, label |-> "Annotation"]

\* What clicks on the model yield.
Points == { HandleClick(<<0, 1, 0>>, t) : t \in Times }

----------------------------------------------------------------------------
\* Sequence helpers.

RECURSIVE SelectSeqBy(_, _)
\* Array.prototype.filter keeping the entries whose id differs from `id`.
SelectSeqBy(s, id) ==
    IF s = <<>> THEN <<>>
    ELSE IF Head(s).id # id
         THEN <<Head(s)>> \o SelectSeqBy(Tail(s), id)
         ELSE SelectSeqBy(Tail(s), id)

IdsOf(s) == { s[i].id : i \in 1..Len(s) }

AnnSet(s) == { s[i] : i \in 1..Len(s) }

----------------------------------------------------------------------------
\* JSON frames.  A frame is the token list of the serialised object.

\* `annotation.id || Date.now()`
Falsy(id) == id \in {Null, 0}

NewAnn(annotation, t) ==
    [id       |-> IF Falsy(annotation.id) THEN t ELSE annotation.id,
     position |-> annotation.position,
     label    |-> annotation.label]

\* JSON.stringify({type: 'annotation_added', annotation: newAnn})
StringifyAdded(ann) ==
    <<"annotation_added", ann.id, ann.position, ann.label>>

\* JSON.stringify({type: 'annotation_removed', id: id})
StringifyRemoved(id) == <<"annotation_removed", id>>

\* The value `undefined`, which reading a property the object lacks yields.
Undefined == [undefined |-> TRUE]

\* JSON.parse(event.data) of the text of an object; data.annotation is
\* undefined when the object has no such property.
JsonParse(frame) ==
    IF frame[1] = "annotation_added"
    THEN [type |-> frame[1],
          annotation |-> IF Len(frame) = 4
                         THEN [id |-> frame[2], position |-> frame[3], label |-> frame[4]]
                         ELSE Undefined]
    ELSE [type |-> frame[1], id |-> frame[2]]

----------------------------------------------------------------------------
\* useAnnotations: the state updaters.

\* Variant of the updater that puts the new entry first.
PrependAnn(prev, ann) == <<ann>> \o prev

\* setAnnotations(prev => [...prev, newAnn])
AppendAnn(prev, ann) == Append(prev, ann)

\* Variant: prev.splice(prev.findIndex(ann => ann.id === id), 1), which drops
\* the first match only and, for an id not found (index -1), the last entry.
RemoveBySplice(prev, id) ==
    IF prev = <<>> THEN prev
    ELSE IF id \in IdsOf(prev)
    THEN LET k == CHOOSE i \in 1..Len(prev) :
                     prev[i].id = id /\ \A j \in 1..(i - 1) : prev[j].id # id
         IN SubSeq(prev, 1, k - 1) \o SubSeq(prev, k + 1, Len(prev))
    ELSE SubSeq(prev, 1, Len(prev) - 1)

\* Variant of the removal that keeps the entry and blanks its label.
RemoveByBlanking(prev, id) ==
    [i \in 1..Len(prev) |->
        IF prev[i].id = id THEN [prev[i] EXCEPT !.label = ""] ELSE prev[i]]

\* setAnnotations(prev => prev.filter(ann => ann.id !== id))
RemoveById(prev, id) == SelectSeqBy(prev, id)

\* websocket?.readyState === WebSocket.OPEN
IsOpen(c) == wsState[c] = "open"

\* if (websocket?.readyState === WebSocket.OPEN) websocket.send(frame)
SendIfOpen(c, frame) ==
    IF IsOpen(c) THEN [wire EXCEPT ![c] = Append(@, frame)] ELSE wire

\* Variant: the send without the readyState test.
BroadcastAddedUnguarded(c, newAnn) ==
    [wire EXCEPT ![c] = Append(@, StringifyAdded(newAnn))]

\* The send of addAnnotation.
BroadcastAdded(c, newAnn) == SendIfOpen(c, StringifyAdded(newAnn))

\* The send of removeAnnotation.
BroadcastRemoved(c, id) == SendIfOpen(c, StringifyRemoved(id))

\* The store after a local add: the updater applied to newAnn.
LocalAdd(prev, annotation, t) == AppendAnn(prev, NewAnn(annotation, t))

\* The store after a local remove.
LocalRemove(prev, id) == RemoveById(prev, id)

\* Variant: a received annotation whose id is already stored is skipped.
HandleMessageDedup(prev, data) ==
    IF data.type = "annotation_added"
    THEN IF data.annotation.id \in IdsOf(prev) THEN prev ELSE AppendAnn(prev, data.annotation)
    ELSE IF data.type = "annotation_removed" THEN RemoveById(prev, data.id)
    ELSE prev

\* Variant: every type but 'annotation_added' is taken for a removal.
HandleMessageElseRemove(prev, data) ==
    IF data.type = "annotation_added" THEN AppendAnn(prev, data.annotation)
    ELSE RemoveById(prev, data.id)

\* handleMessage applied to the store of one client.
HandleMessage(prev, data) ==
    IF data.type = "annotation_added" THEN AppendAnn(prev, data.annotation)
    ELSE IF data.type = "annotation_removed" THEN RemoveById(prev, data.id)
    ELSE prev

\* History record of the callback that ran: add / remove / removeAll of a
\* client, recvAdd / recvRemove at a client (with the id removed, and whether
\* the same removal had just been applied there), lost, or other.
Op(kind, c, id) ==
    [kind |-> kind, client |-> c, id |-> id,
     rep  |-> kind = "recvRemove" /\ lastOp.kind = kind /\ lastOp.client = c /\ lastOp.id = id]

\* Callbacks that no property looks at leave one and the same record.
OtherOp == [kind |-> "other", client |-> "A", id |-> 0, rep |-> FALSE]

InFlight == Len(wire["A"]) + Len(wire["B"])

----------------------------------------------------------------------------
\* The clients right after useWebSocket's connect() and useAnnotations.
InitStore ==
    /\ annotations = [c \in Clients |-> <<>>]
    /\ wsState = [c \in Clients |-> "connecting"]
    /\ reconnectTimer = [c \in Clients |-> FALSE]
    /\ wire = [c \in Clients |-> <<>>]
    /\ lastOp = OtherOp
    /\ missed = FALSE
    /\ closes = [c \in Clients |-> 0]
    /\ liveSockets = [c \in Clients |-> 1]

\* The overlay view right after its first render and effects: setupCamera has
\* called getUserMedia, nothing else has happened.
InitView ==
    /\ mounted = TRUE
    /\ camPc = "acquire"
    /\ stream = "none"
    /\ detector = "null"
    /\ isDetecting = FALSE
    /\ detectedBox = NoBox
    /\ loopPc = "off"
    /\ loopResult = NoBox
    /\ trackingStatus = "searching"
    /\ lastOutcome = "none yet"
    /\ useVision = FALSE
    /\ visionTimer = FALSE
    /\ inflight = [cur |-> 0, stale |-> 0]

\* No single call is followed.
NoCall == [fn |-> "none"]

\* The call has not returned yet.
Pending == [returned |-> FALSE]

InitCall == input = NoCall /\ output = Pending

\* No pass has run.
NoPass == [ran |-> FALSE]

\* No overlay is drawing: the store hooks request no animation frame.
InitNoRender == rafQueue = <<>> /\ lastPass = NoPass

\* useState(false); the effect has not been cleaned up.
InitHook == connected = FALSE /\ cleanedUp = FALSE

\* Components that call getDetector.
MaxCallers == 4

Callers == 1..MaxCallers

\* The overlay whose steps are followed, and another component.
ViewCaller == 1
OtherCaller == 2

\* The value `null` of the module variable detectorInstance.
NoInstance == [instance |-> "null"]

\* A call of getDetector that has not resolved has handed over nothing.
NotHanded == [model |-> "none", isLoading |-> FALSE]

\* let detectorInstance = null; no call has been made.
InitLoader ==
    /\ detectorInstance = NoInstance
    /\ callPc = [k \in Callers |-> "idle"]
    /\ handed = [k \in Callers |-> NotHanded]

\* requestAnimationFrame(draw): the callback with the values its closure
\* holds; cancellable says that the effect's animationId names this request.
Request(box, anns, cancellable) ==
    [box |-> box, annotations |-> anns, cancellable |-> cancellable]

\* cancelAnimationFrame(animationId) in the effect's cleanup: the request
\* the effect body made is dropped if it is still pending.
CancelFirst(queue) == SelectSeq(queue, LAMBDA e : ~e.cancellable)

\* A commit with a new detectedBox or annotations: the cleanup of the draw
\* effect runs, then its body with the new values.
RerunDrawEffect(queue, box, anns) ==
    Append(CancelFirst(queue), Request(box, anns, TRUE))

\* The browser runs the callback that was requested first: one pass of draw
\* with the values of its closure, which ends by requesting the next frame;
\* the id of that request is dropped.
DrawPass ==
    /\ rafQueue # <<>>
    /\ LET e == Head(rafQueue) IN
        /\ lastPass' = [ran |-> TRUE, box |-> e.box, annotations |-> e.annotations]
        /\ rafQueue' = Append(Tail(rafQueue), Request(e.box, e.annotations, FALSE))

\* The commit after setDetectedBox(b): a box object is a new value each
\* time, null over null is no change; on a change the draw effect re-runs.
CommitBox(queue, old, b, anns) ==
    IF b = NoBox /\ old = NoBox THEN queue ELSE RerunDrawEffect(queue, b, anns)

\* A mounted overlay after its first render and effects: the draw effect
\* has requested its first frame.
InitRender ==
    /\ InitStore /\ InitView /\ InitCall /\ InitHook /\ InitLoader
    /\ rafQueue = <<Request(NoBox, <<>>, TRUE)>>
    /\ lastPass = NoPass

\* The store hooks on their own: no draw effect has requested a frame.
Init == InitStore /\ InitView /\ InitCall /\ InitNoRender /\ InitHook /\ InitLoader

\* addAnnotation(annotation), Date.now() returning t
AddCore(c, annotation, t) ==
    /\ Len(annotations[c]) < MaxAnns
    /\ InFlight < MaxWire
    /\ annotations' = [annotations EXCEPT ![c] = LocalAdd(@, annotation, t)]
    /\ wire' = BroadcastAdded(c, NewAnn(annotation, t))
    /\ UNCHANGED <<wsState, reconnectTimer>>

\* removeAnnotation(id)
RemoveCore(c, id) ==
    /\ id \in IdsOf(annotations[c]) \cup {Null}
    /\ InFlight < MaxWire
    /\ annotations' = [annotations EXCEPT ![c] = LocalRemove(@, id)]
    /\ wire' = BroadcastRemoved(c, id)
    /\ UNCHANGED <<wsState, reconnectTimer>>

\* The server relays the oldest frame of sender s to its peer r, whose message
\* listener runs handleMessage; a peer whose socket is not open never gets it.
DeliverCore(s, r) ==
    /\ s # r
    /\ wire[s] # <<>>
    /\ LET data == JsonParse(Head(wire[s])) IN
        /\ data.type = "annotation_added" /\ IsOpen(r)
              => Len(annotations[r]) < MaxAnns
        /\ annotations' =
              [annotations EXCEPT ![r] = IF IsOpen(r) THEN HandleMessage(@, data) ELSE @]
    /\ wire' = [wire EXCEPT ![s] = Tail(@)]
    /\ UNCHANGED <<wsState, reconnectTimer>>

\* Variant of onopen that replays the local store to the peers.
OnOpenReplays(c) ==
    /\ wsState[c] = "connecting"
    /\ wsState' = [wsState EXCEPT ![c] = "open"]
    /\ wire' = [wire EXCEPT ![c] =
                  @ \o [i \in 1..Len(annotations[c]) |-> StringifyAdded(annotations[c][i])]]
    /\ UNCHANGED <<annotations, reconnectTimer>>

\* websocket.onopen
OnOpenCore(c) ==
    /\ wsState[c] = "connecting"
    /\ wsState' = [wsState EXCEPT ![c] = "open"]
    /\ UNCHANGED <<annotations, reconnectTimer, wire>>

\* Variant of onclose that retries only a connection that had been open.
OnCloseNoRetry(c) ==
    /\ wsState[c] \in {"connecting", "open"}
    /\ wsState' = [wsState EXCEPT ![c] = "closed"]
    /\ reconnectTimer' = [reconnectTimer EXCEPT ![c] = (wsState[c] = "open")]
    /\ UNCHANGED <<annotations, wire>>

\* websocket.onclose: reconnectTimeout.current = setTimeout(connect, 2000)
OnCloseCore(c) ==
    /\ wsState[c] \in {"connecting", "open"}
    /\ wsState' = [wsState EXCEPT ![c] = "closed"]
    /\ reconnectTimer' = [reconnectTimer EXCEPT ![c] = TRUE]
    /\ UNCHANGED <<annotations, wire>>

\* Variant of the timer with setInterval: it stays armed after firing.
ConnectKeepsTimer(c) ==
    /\ reconnectTimer[c]
    /\ wsState' = [wsState EXCEPT ![c] = "connecting"]
    /\ UNCHANGED <<annotations, reconnectTimer, wire>>

\* The reconnect timer fires: connect() creates a new socket.
ConnectCore(c) ==
    /\ reconnectTimer[c]
    /\ reconnectTimer' = [reconnectTimer EXCEPT ![c] = FALSE]
    /\ wsState' = [wsState EXCEPT ![c] = "connecting"]
    /\ UNCHANGED <<annotations, wire>>

\* Variant of onerror that also schedules a reconnect.
OnErrorReconnects(c) ==
    /\ wsState[c] \in {"connecting", "open"}
    /\ reconnectTimer' = [reconnectTimer EXCEPT ![c] = TRUE]
    /\ UNCHANGED <<annotations, wsState, wire>>

\* websocket.onerror: console.error(...) and nothing else.
OnErrorCore(c) ==
    /\ wsState[c] \in {"connecting", "open"}
    /\ UNCHANGED <<annotations, wsState, reconnectTimer, wire>>

----------------------------------------------------------------------------
\* Spec: the store and the channel, recording the callback that ran last.

AddAnnotation(c, annotation, t) ==
    /\ lastOp' = OtherOp
    /\ AddCore(c, annotation, t)
    /\ UNCHANGED missed

RemoveAnnotation(c, id) ==
    /\ lastOp' = IF id = Null THEN Op("removeAll", c, 0) ELSE OtherOp
    /\ RemoveCore(c, id)
    /\ UNCHANGED missed

Deliver(s, r) ==
    /\ DeliverCore(s, r)
    /\ LET data == JsonParse(Head(wire[s])) IN
        lastOp' = IF ~IsOpen(r) THEN OtherOp
                  ELSE Op(IF data.type = "annotation_added" THEN "recvAdd"
                          ELSE "recvRemove",
                          r,
                          IF data.type = "annotation_removed" THEN data.id ELSE 0)
    /\ UNCHANGED missed

OnOpen(c) == OnOpenCore(c) /\ lastOp' = OtherOp /\ UNCHANGED missed

OnClose(c) == OnCloseCore(c) /\ lastOp' = OtherOp /\ UNCHANGED missed

Connect(c) == ConnectCore(c) /\ lastOp' = OtherOp /\ UNCHANGED missed

\* The overlay view takes no part in the steps of the store, and the
\* connection counters are not kept here.
viewIdle == UNCHANGED <<viewVars, chanVars, callVars, renderVars, hookVars, loaderVars>>

Next ==
    \/ \E c \in Clients, p \in Points :
          \* A click carries its time as id, so the time addAnnotation
          \* reads is not used; it is taken to be the time of the click.
          /\ AddAnnotation(c, p, p.id)
          /\ viewIdle
    \/ \E c \in Clients, id \in RemoveIds : RemoveAnnotation(c, id) /\ viewIdle
    \/ \E s \in Clients, r \in Clients : Deliver(s, r) /\ viewIdle
    \/ \E c \in Clients : OnOpen(c) /\ viewIdle
    \/ \E c \in Clients : OnClose(c) /\ viewIdle
    \/ \E c \in Clients : Connect(c) /\ viewIdle

Spec == Init /\ [][Next]_vars

----------------------------------------------------------------------------
\* SpecSync: the same store and channel, recording instead whether any
\* mutation or frame failed to reach the peer.

SyncAdd(c, annotation, t) ==
    /\ AddCore(c, annotation, t)
    /\ missed' = (missed \/ \E d \in Clients : ~IsOpen(d))
    /\ UNCHANGED lastOp

SyncRemove(c, id) ==
    /\ RemoveCore(c, id)
    /\ missed' = (missed \/ \E d \in Clients : ~IsOpen(d))
    /\ UNCHANGED lastOp

SyncDeliver(s, r) ==
    /\ DeliverCore(s, r)
    /\ missed' = (missed \/ ~IsOpen(r))
    /\ UNCHANGED lastOp

SyncOnOpen(c) == OnOpenCore(c) /\ UNCHANGED <<lastOp, missed>>

SyncOnClose(c) == OnCloseCore(c) /\ UNCHANGED <<lastOp, missed>>

SyncConnect(c) == ConnectCore(c) /\ UNCHANGED <<lastOp, missed>>

NextSync ==
    \/ \E c \in Clients, p \in Points :
          \* A click carries its time as id, so the time addAnnotation
          \* reads is not used; it is taken to be the time of the click.
          /\ SyncAdd(c, p, p.id)
          /\ viewIdle
    \/ \E c \in Clients, id \in RemoveIds : SyncRemove(c, id) /\ viewIdle
    \/ \E s \in Clients, r \in Clients : SyncDeliver(s, r) /\ viewIdle
    \/ \E c \in Clients : SyncOnOpen(c) /\ viewIdle
    \/ \E c \in Clients : SyncOnClose(c) /\ viewIdle
    \/ \E c \in Clients : SyncConnect(c) /\ viewIdle

SpecSync == Init /\ [][NextSync]_vars

----------------------------------------------------------------------------
\* SpecChannel: the channel of one client session in detail.  The session
\* followed is client A; its peer never gets its socket open and does
\* nothing, so the frames A sends are dropped by the relay.  lastOp records
\* every callback by its kind, missed records that A changed its store
\* while its channel was not open.

MaxCloses == 2   \* close events the network inflicts on the session

Session == "A"

Peer == "B"

ChanAdd(annotation, t) ==
    /\ AddCore(Session, annotation, t)
    /\ lastOp' = Op("add", Session, 0)
    /\ missed' = (missed \/ ~IsOpen(Session))
    /\ UNCHANGED chanVars

ChanRemove(id) ==
    /\ RemoveCore(Session, id)
    /\ lastOp' = Op(IF id = Null THEN "removeAll" ELSE "remove", Session, 0)
    /\ missed' = (missed \/ ~IsOpen(Session))
    /\ UNCHANGED chanVars

ChanDeliver ==
    /\ DeliverCore(Session, Peer)
    /\ lastOp' = Op("lost", Peer, 0)
    /\ UNCHANGED <<missed, chanVars>>

ChanOpen ==
    /\ OnOpenCore(Session)
    /\ lastOp' = Op("open", Session, 0)
    /\ UNCHANGED <<missed, chanVars>>

\* The socket the session holds closes: it is no longer live, and onclose
\* has armed the reconnect timer.
ChanClose ==
    /\ closes[Session] < MaxCloses
    /\ OnCloseCore(Session)
    /\ closes' = [closes EXCEPT ![Session] = @ + 1]
    /\ liveSockets' = [liveSockets EXCEPT ![Session] = @ - 1]
    /\ lastOp' = Op("close", Session, 0)
    /\ UNCHANGED missed

ChanError ==
    /\ OnErrorCore(Session)
    /\ lastOp' = Op("error", Session, 0)
    /\ UNCHANGED <<missed, chanVars>>

\* The reconnect timer fires: connect() makes one more socket.
ChanConnect ==
    /\ ConnectCore(Session)
    /\ liveSockets' = [liveSockets EXCEPT ![Session] = @ + 1]
    /\ lastOp' = Op("connect", Session, 0)
    /\ UNCHANGED <<missed, closes>>

NextChannel ==
    \/ \E p \in Points :
          /\ ChanAdd(p, p.id)
          /\ UNCHANGED <<viewVars, callVars, renderVars, hookVars, loaderVars>>
    \/ \E id \in RemoveIds : ChanRemove(id) /\ UNCHANGED <<viewVars, callVars, renderVars, hookVars, loaderVars>>
    \/ ChanDeliver /\ UNCHANGED <<viewVars, callVars, renderVars, hookVars, loaderVars>>
    \/ ChanOpen /\ UNCHANGED <<viewVars, callVars, renderVars, hookVars, loaderVars>>
    \/ ChanClose /\ UNCHANGED <<viewVars, callVars, renderVars, hookVars, loaderVars>>
    \/ ChanError /\ UNCHANGED <<viewVars, callVars, renderVars, hookVars, loaderVars>>
    \/ ChanConnect /\ UNCHANGED <<viewVars, callVars, renderVars, hookVars, loaderVars>>

SpecChannel == Init /\ [][NextChannel]_vars

\* The same with the timer of setTimeout(connect, 2000) firing eventually.
FairChannel == SpecChannel /\ WF_vars(ChanConnect /\ UNCHANGED <<viewVars, callVars, renderVars, hookVars, loaderVars>>)

----------------------------------------------------------------------------
----------------------------------------------------------------------------
\* SpecHook: the useWebSocket hook of the session from mount to after its
\* teardown.  The effect runs once (its dependency clientId never changes),
\* so its cleanup is the closure of the first render, in which the `ws`
\* state is still null.

\* setConnected(value): React drops a state update of an unmounted component.
SetConnected(was, torn, value) == IF torn THEN was ELSE value

hookIdle == UNCHANGED <<viewVars, callVars, renderVars, loaderVars, missed>>

\* The application adds an annotation while the hook is mounted.
HookAdd(annotation, t) ==
    /\ ~cleanedUp
    /\ AddCore(Session, annotation, t)
    /\ lastOp' = Op("add", Session, 0)
    /\ UNCHANGED <<chanVars, hookVars>>
    /\ hookIdle

\* Variant of onopen that leaves the flag alone.
HookOpenSilent ==
    /\ OnOpenCore(Session)
    /\ lastOp' = Op("open", Session, 0)
    /\ UNCHANGED <<chanVars, hookVars>>
    /\ hookIdle

\* websocket.onopen: setConnected(true).
HookOpen ==
    /\ OnOpenCore(Session)
    /\ connected' = SetConnected(connected, cleanedUp, TRUE)
    /\ lastOp' = Op("open", Session, 0)
    /\ UNCHANGED <<chanVars, cleanedUp>>
    /\ hookIdle

\* websocket.onclose: setConnected(false) and setTimeout(connect, 2000),
\* whether or not the effect has been cleaned up.
HookClose ==
    /\ closes[Session] < MaxCloses
    /\ OnCloseCore(Session)
    /\ connected' = SetConnected(connected, cleanedUp, FALSE)
    /\ closes' = [closes EXCEPT ![Session] = @ + 1]
    /\ liveSockets' = [liveSockets EXCEPT ![Session] = @ - 1]
    /\ lastOp' = Op("close", Session, 0)
    /\ UNCHANGED cleanedUp
    /\ hookIdle

\* websocket.onerror
HookError ==
    /\ OnErrorCore(Session)
    /\ lastOp' = Op("error", Session, 0)
    /\ UNCHANGED <<chanVars, hookVars>>
    /\ hookIdle

\* The reconnect timer fires: connect() makes one more socket.
HookConnect ==
    /\ ConnectCore(Session)
    /\ liveSockets' = [liveSockets EXCEPT ![Session] = @ + 1]
    /\ lastOp' = Op("connect", Session, 0)
    /\ UNCHANGED <<closes, hookVars>>
    /\ hookIdle

\* The cleanup of the effect: clearTimeout(reconnectTimeout.current), and
\* ws.close() only if the `ws` of its closure is set, which it is not.
HookCleanup ==
    /\ ~cleanedUp
    /\ cleanedUp' = TRUE
    /\ reconnectTimer' = [reconnectTimer EXCEPT ![Session] = FALSE]
    /\ lastOp' = Op("cleanup", Session, 0)
    /\ UNCHANGED <<annotations, wsState, wire, chanVars, connected>>
    /\ hookIdle

NextHook ==
    \/ \E p \in Points : HookAdd(p, p.id)
    \/ HookOpen
    \/ HookClose
    \/ HookError
    \/ HookConnect
    \/ HookCleanup

SpecHook == Init /\ [][NextHook]_vars

----------------------------------------------------------------------------
\* SpecLoader: the detector singleton of the module and concurrent calls of
\* getDetector.  A call that finds no instance creates one and awaits its
\* loadModel; a call that finds an instance returns it at once.

loaderIdle == UNCHANGED <<storeVars, viewVars, callVars, renderVars, hookVars>>

\* new YOLODetector() followed by the synchronous start of loadModel:
\* model = null, isLoading = true, suspended at the dynamic import.
NewLoadingDetector == [model |-> "null", isLoading |-> TRUE, awaiting |-> "import"]

\* What a caller receives: the instance, here with the values its fields
\* have at that moment.
HandedState(instance) == [model |-> instance.model, isLoading |-> instance.isLoading]

\* Caller k calls getDetector.  Without an instance it creates one, starts
\* loadModel and suspends at the await; with one it returns it.
GetDetector(k) ==
    /\ callPc[k] \in {"idle", "done"}
    /\ IF detectorInstance = NoInstance
       THEN /\ detectorInstance' = NewLoadingDetector
            /\ callPc' = [callPc EXCEPT ![k] = "await"]
            /\ handed' = [handed EXCEPT ![k] = NotHanded]
       ELSE /\ callPc' = [callPc EXCEPT ![k] = "done"]
            /\ handed' = [handed EXCEPT ![k] = HandedState(detectorInstance)]
            /\ UNCHANGED detectorInstance

\* loadModel gets past one of its first two awaits: the import has
\* resolved and FilesetResolver is awaited, or that has resolved and
\* ObjectDetector.createFromOptions is awaited.
LoadModelAdvances ==
    /\ detectorInstance # NoInstance
    /\ detectorInstance.isLoading
    /\ detectorInstance.awaiting \in {"import", "fileset"}
    /\ detectorInstance' =
          [detectorInstance EXCEPT
              !.awaiting = IF @ = "import" THEN "fileset" ELSE "create"]
    /\ UNCHANGED <<callPc, handed>>

\* loadModel settles: createFromOptions resolves and the model is set, or
\* one of the awaits rejects and the catch leaves the model null; the
\* finally clears isLoading, and the call awaiting loadModel resumes and
\* returns the instance.
LoadModelSettles(ok) ==
    /\ detectorInstance # NoInstance
    /\ detectorInstance.isLoading
    /\ ok => detectorInstance.awaiting = "create"
    /\ detectorInstance' = [model |-> IF ok THEN "model" ELSE "null",
                            isLoading |-> FALSE, awaiting |-> "none"]
    /\ callPc' = [k \in Callers |-> IF callPc[k] = "await" THEN "done" ELSE callPc[k]]
    /\ handed' = [k \in Callers |->
                     IF callPc[k] = "await" THEN HandedState(detectorInstance') ELSE handed[k]]

NextLoader ==
    \/ \E k \in Callers : GetDetector(k) /\ loaderIdle
    \/ LoadModelAdvances /\ loaderIdle
    \/ \E ok \in BOOLEAN : LoadModelSettles(ok) /\ loaderIdle

SpecLoader == Init /\ [][NextLoader]_vars

\* The local detector (YOLODetector).

MaxDet == 2      \* most candidates one inference returns in the model

\* Candidates the underlying object detector may report.  Scores are in
\* percent; all pass the detector's scoreThreshold of 0.25.
Candidates ==
    { [categoryName |-> "person", score |-> 90,
       boundingBox |-> [originX |-> 300, originY |-> 20, width |-> 400, height |-> 600]],
      [categoryName |-> "chair", score |-> 95,
       boundingBox |-> [originX |-> 700, originY |-> 200, width |-> 300, height |-> 300]],
      [categoryName |-> "bottle", score |-> 40,
       boundingBox |-> [originX |-> 100, originY |-> 50, width |-> 200, height |-> 400]],
      [categoryName |-> "cup", score |-> 60,
       boundingBox |-> [originX |-> 500, originY |-> 300, width |-> 80, height |-> 90]],
      [categoryName |-> "bottle", score |-> 80,
       boundingBox |-> [originX |-> 640, originY |-> 360, width |-> 120, height |-> 300]],
      [categoryName |-> "cup", score |-> 40,
       boundingBox |-> [originX |-> 900, originY |-> 100, width |-> 60, height |-> 70]],
      [categoryName |-> "wine glass", score |-> 30,
       boundingBox |-> [originX |-> 10, originY |-> 10, width |-> 0, height |-> 40]] }

\* What model.detectForVideo can do: return a list of candidates, or throw.
Inferences ==
    { [throws |-> FALSE, detections |-> d] :
          d \in UNION { [1..n -> Candidates] : n \in 0..MaxDet } }
    \cup { [throws |-> TRUE, detections |-> <<>>] }

\* Variant of the filter that lets every category through.
IsAnyCategory(det) == det.categoryName \in { c.categoryName : c \in Candidates }

\* The filter of detectObjects: only bottle-like categories.
IsBottleLike(det) ==
    \/ det.categoryName = "bottle"
    \/ det.categoryName = "wine glass"
    \/ det.categoryName = "cup"

\* The map of detectObjects.
ToObject(det) ==
    [class |-> det.categoryName,
     score |-> det.score,
     bbox  |-> [x |-> det.boundingBox.originX, y |-> det.boundingBox.originY,
                width |-> det.boundingBox.width, height |-> det.boundingBox.height]]

\* One step of the stable sort: x goes behind every entry scoring at least x.
InsertByScore(sorted, x) ==
    LET k == Cardinality({ i \in 1..Len(sorted) : sorted[i].score >= x.score })
    IN SubSeq(sorted, 1, k) \o <<x>> \o SubSeq(sorted, k + 1, Len(sorted))

RECURSIVE SortByScore(_)
\* bottleObjects.sort((a, b) => b.score - a.score)
SortByScore(objs) ==
    IF objs = <<>> THEN <<>>
    ELSE InsertByScore(SortByScore(SubSeq(objs, 1, Len(objs) - 1)), objs[Len(objs)])

RECURSIVE MapFilter(_)
MapFilter(dets) ==
    IF dets = <<>> THEN <<>>
    ELSE IF IsBottleLike(Head(dets))
         THEN <<ToObject(Head(dets))>> \o MapFilter(Tail(dets))
         ELSE MapFilter(Tail(dets))

\* YOLODetector.detectObjects: [] without a model, [] when the inference
\* throws (the catch), else the bottle-like objects by descending score.
DetectObjects(model, inference) ==
    IF model # "model" THEN <<>>
    ELSE IF inference.throws THEN <<>>
    ELSE SortByScore(MapFilter(inference.detections))

\* YOLODetector.detectBottle: the first object, or null.
DetectBottle(model, inference) ==
    LET objects == DetectObjects(model, inference) IN
    IF Len(objects) = 0 THEN NoBox ELSE objects[1]

\* History: what the detection attempt itself did, before any catch.
Outcome(model, inference) ==
    IF model = "model" /\ inference.throws THEN "exception"
    ELSE IF DetectBottle(model, inference) = NoBox THEN "none"
    ELSE "box"

----------------------------------------------------------------------------
\* SpecHud: the HUD overlay (components/VideoCapture.jsx).
\*
\* detectObjects runs to its return without suspending, so the promise
\* detectLoop awaits is already resolved: the continuation of detectLoop is a
\* microtask, and while it is pending (loopPc = "await") no other callback of
\* the event loop can start.

NoMicrotask == loopPc # "await"

\* The overlay takes no part in the steps of the store, and only a pass of
\* draw records what was drawn.
storeIdle == UNCHANGED <<storeVars, callVars, hookVars, lastPass>>

MaxDrawn == 2    \* a box is committed while fewer than this many draw callbacks of earlier effect runs are pending

\* The draw effect can run once more: fewer than MaxDrawn callbacks that its
\* cleanup cannot cancel are pending.  Each run of the effect leaves one such
\* callback behind for good once its first frame has passed, so the camera
\* frames and vision responses that commit a box are followed while Room
\* holds (as RenderSetBox does with MaxChains); a frame without a detection
\* and a failed response are always followed.
Room == Len(CancelFirst(rafQueue)) < MaxDrawn

\* An animation frame runs the pending draw callback of the overlay that was
\* requested first, however many are pending.
OverlayDrawPass ==
    /\ NoMicrotask
    /\ DrawPass
    /\ UNCHANGED <<storeVars, callVars, hookVars, viewVars, loaderVars>>

\* What a call of detectLoop can see of an inference: the detection a loaded
\* detector hands back and what the attempt did.  (Without a model every
\* inference gives no detection.)
Seen(inference) == <<DetectBottle("model", inference), Outcome("model", inference)>>

\* One inference for each thing a call of detectLoop can see; two inferences
\* that are seen alike lead to the same state.
LoopInferences ==
    { CHOOSE inf \in Inferences : Seen(inf) = r : r \in { Seen(i) : i \in Inferences } }

\* The model field of the detector a component holds: the state holds the
\* singleton itself, so the field is read as it is now.
ModelOf(det) == IF det = "null" THEN "null" ELSE detectorInstance.model

\* The detectedBox state the HUD detectLoop sets for a detection.
HudBox(detection) ==
    [x |-> detection.bbox.x, y |-> detection.bbox.y,
     width |-> detection.bbox.width, height |-> detection.bbox.height,
     class |-> detection.class, score |-> detection.score]

\* What the await in detectLoop yields when the promise rejects.
Thrown == [class |-> "thrown"]

\* Variant of the status that never falls back to searching.
StatusAfterHolding(detection) ==
    IF detection = Thrown THEN "lost" ELSE "locked"

\* The status detectLoop sets once detectBottle has settled: locked or
\* searching in the try block, lost in the catch.
StatusAfter(detection) ==
    IF detection = Thrown THEN "lost"
    ELSE IF detection # NoBox THEN "locked" ELSE "searching"

\* The cleanup of the camera effect: if (stream) stop every track.
StopTracks(str) == IF str # "none" THEN "stopped" ELSE str

\* cancelAnimationFrame(animationId) in the cleanup of the loop effect.
CancelLoop(pc) == "off"

\* getUserMedia resolves: stream is assigned; with the video element still
\* there it is attached and played, else setupCamera goes on and calls
\* getDetector.
HudCameraGranted ==
    /\ NoMicrotask
    /\ camPc = "acquire"
    /\ stream' = "live"
    /\ camPc' = IF mounted THEN "play" ELSE "load"
    /\ UNCHANGED <<mounted, detector, isDetecting, detectedBox, loopPc, loopResult,
                   trackingStatus, lastOutcome, useVision, visionTimer, inflight>>
    /\ IF mounted THEN UNCHANGED loaderVars ELSE GetDetector(ViewCaller)
    /\ UNCHANGED rafQueue
    /\ storeIdle

\* getUserMedia rejects: the catch of setupCamera.
HudCameraDenied ==
    /\ NoMicrotask
    /\ camPc = "acquire"
    /\ camPc' = "failed"
    /\ UNCHANGED <<mounted, stream, detector, isDetecting, detectedBox, loopPc,
                   loopResult, trackingStatus, lastOutcome, useVision, visionTimer,
                   inflight>>
    /\ UNCHANGED <<rafQueue, loaderVars>>
    /\ storeIdle

\* video.play() settles: on success setupCamera goes on and calls
\* getDetector, on failure it ends in its catch.
HudPlaySettled(ok) ==
    /\ NoMicrotask
    /\ camPc = "play"
    /\ camPc' = IF ok THEN "load" ELSE "failed"
    /\ UNCHANGED <<mounted, stream, detector, isDetecting, detectedBox, loopPc,
                   loopResult, trackingStatus, lastOutcome, useVision, visionTimer,
                   inflight>>
    /\ IF ok THEN GetDetector(ViewCaller) ELSE UNCHANGED loaderVars
    /\ UNCHANGED rafQueue
    /\ storeIdle

\* The synchronous part of one detectLoop call: with the video ready the
\* detector is run (its promise is resolved at once), else the next frame is
\* requested.  (A frame whose detection will be committed is followed while
\* Room holds.)
HudLoopEnter(ready, inference, det) ==
    /\ (ready /\ DetectBottle(det, inference) # NoBox) => Room
    /\ loopPc' = IF ready THEN "await" ELSE "scheduled"
    /\ loopResult' = IF ready THEN DetectBottle(det, inference) ELSE NoBox
    /\ lastOutcome' = IF ready THEN Outcome(det, inference) ELSE lastOutcome

\* setupCamera resumes with the detector its getDetector call returned, the
\* singleton, whose load may still be running or may have failed:
\* setDetector, setIsDetecting(true).  On a mounted component the loop effect
\* then runs and makes the first detectLoop call.
HudDetectorLoaded(ready, inference) ==
    /\ NoMicrotask
    /\ camPc = "load"
    /\ callPc[ViewCaller] = "done"
    /\ camPc' = "done"
    /\ IF mounted
       THEN /\ detector' = "instance"
            /\ isDetecting' = TRUE
            /\ HudLoopEnter(ready, inference, detectorInstance.model)
       ELSE UNCHANGED <<detector, isDetecting, loopPc, loopResult, lastOutcome>>
    /\ UNCHANGED <<mounted, stream, detectedBox, trackingStatus, useVision,
                   visionTimer, inflight>>
    /\ UNCHANGED <<rafQueue, loaderVars>>
    /\ storeIdle

\* The animation frame fires: detectLoop runs again.
HudLoopFire(ready, inference) ==
    /\ NoMicrotask
    /\ loopPc = "scheduled"
    /\ HudLoopEnter(ready, inference, ModelOf(detector))
    /\ UNCHANGED <<mounted, camPc, stream, detector, isDetecting, detectedBox,
                   trackingStatus, useVision, visionTimer, inflight>>
    /\ UNCHANGED <<rafQueue, loaderVars>>
    /\ storeIdle

\* detectLoop resumes after the await: box and status are set, and the next
\* animation frame is requested.  A box that was set re-runs the draw effect.
HudLoopResume ==
    /\ loopPc = "await"
    /\ detectedBox' = IF loopResult \notin {NoBox, Thrown}
                      THEN HudBox(loopResult) ELSE detectedBox
    /\ trackingStatus' = StatusAfter(loopResult)
    /\ loopPc' = "scheduled"
    /\ loopResult' = NoBox
    /\ UNCHANGED <<mounted, camPc, stream, detector, isDetecting, lastOutcome,
                   useVision, visionTimer, inflight>>
    /\ rafQueue' = IF loopResult \notin {NoBox, Thrown}
                    THEN RerunDrawEffect(rafQueue, detectedBox', annotations[Session])
                    ELSE rafQueue
    /\ UNCHANGED loaderVars
    /\ storeIdle

\* The component unmounts: the cleanups of the camera, loop and draw
\* effects run.
HudUnmount ==
    /\ NoMicrotask
    /\ mounted
    /\ mounted' = FALSE
    /\ stream' = StopTracks(stream)
    /\ loopPc' = CancelLoop(loopPc)
    /\ UNCHANGED <<camPc, detector, isDetecting, detectedBox, loopResult,
                   trackingStatus, lastOutcome, useVision, visionTimer, inflight>>
    /\ rafQueue' = CancelFirst(rafQueue)
    /\ UNCHANGED loaderVars
    /\ storeIdle

NextHud ==
    \/ HudCameraGranted
    \/ HudCameraDenied
    \/ \E ok \in BOOLEAN : HudPlaySettled(ok)
    \/ \E ready \in BOOLEAN, inf \in LoopInferences : HudDetectorLoaded(ready, inf)
    \/ \E ready \in BOOLEAN, inf \in LoopInferences : HudLoopFire(ready, inf)
    \/ HudLoopResume
    \/ HudUnmount
    \/ OverlayDrawPass
    \/ NoMicrotask /\ GetDetector(OtherCaller) /\ loaderIdle
    \/ NoMicrotask /\ LoadModelAdvances /\ loaderIdle
    \/ \E ok \in BOOLEAN : NoMicrotask /\ LoadModelSettles(ok) /\ loaderIdle

SpecHud == InitRender /\ [][NextHud]_vars

----------------------------------------------------------------------------
\* SpecFusion: the two-strategy overlay (the VideoCapture with the AI-vision
\* toggle).  A click on the toggle, the re-render and the effect cleanups and
\* re-runs it causes are one step.

MaxInflight == 2   \* most remote requests in flight at once in the model

\* getUserMedia({video: {width: 1280, height: 720}}) and the canvas
\* detectWithVision draws the frame on.
NativeWidth == 1280
NativeHeight == 720
DownWidth == 640
DownHeight == 480

\* x * scaleX with scaleX = 1280 / 640.
ScaleX(x) == (x * NativeWidth) \div DownWidth

\* Variant of the vertical rescale that uses the horizontal factor.
ScaleYByWidth(y) == (y * NativeWidth) \div DownWidth

\* y * scaleY with scaleY = 720 / 480 (exact on the even inputs used here).
ScaleY(y) == (y * NativeHeight) \div DownHeight

\* result.parts absent, and the parts: null the view stores for it.
NoParts == [cap |-> "null"]

\* What a remote request can come back with: a rejected fetch or a body that
\* is no JSON ("error"), or a parsed result.
RemoteResults ==
    { [kind |-> "error"],
      [kind |-> "result", detected |-> FALSE],
      [kind |-> "result", detected |-> TRUE, confidence |-> 95,
       bbox |-> [x |-> 100, y |-> 40, width |-> 120, height |-> 300],
       parts |-> NoParts],
      [kind |-> "result", detected |-> TRUE, confidence |-> 70,
       bbox |-> [x |-> 200, y |-> 60, width |-> 80, height |-> 200],
       parts |-> [cap    |-> [x |-> 240, y |-> 80],
                  middle |-> [x |-> 240, y |-> 160],
                  bottom |-> [x |-> 240, y |-> 240]]],
      [kind |-> "result", detected |-> TRUE, confidence |-> 85,
       bbox |-> [x |-> 160, y |-> 120, width |-> 50, height |-> 50],
       parts |-> [cap    |-> [x |-> 184, y |-> 126],
                  middle |-> [x |-> 184, y |-> 144],
                  bottom |-> [x |-> 184, y |-> 166]]] }

ScalePoint(pt) == [x |-> ScaleX(pt.x), y |-> ScaleY(pt.y)]

\* The detectedBox state detectWithVision sets for a detected result.
VisionBox(result) ==
    [x |-> ScaleX(result.bbox.x), y |-> ScaleY(result.bbox.y),
     width |-> ScaleX(result.bbox.width), height |-> ScaleY(result.bbox.height),
     class |-> "bottle", score |-> result.confidence, source |-> "gpt-4v",
     parts |-> IF result.parts # NoParts
               THEN [cap    |-> ScalePoint(result.parts.cap),
                     middle |-> ScalePoint(result.parts.middle),
                     bottom |-> ScalePoint(result.parts.bottom)]
               ELSE NoParts]

\* The detectedBox state the local detectLoop sets for a detection.
LocalBox(detection) ==
    [x |-> detection.bbox.x, y |-> detection.bbox.y,
     width |-> detection.bbox.width, height |-> detection.bbox.height,
     class |-> detection.class, score |-> detection.score, source |-> "coco-ssd"]

\* Variant: a response is dropped while a box of an earlier response is held.
ApplyVisionFirstWins(box, result) ==
    IF result.kind = "error" THEN box
    ELSE IF box # NoBox /\ box.source = "gpt-4v" THEN box
    ELSE IF result.detected THEN VisionBox(result) ELSE NoBox

\* What detectWithVision does to detectedBox once the response is there.
ApplyVision(box, result) ==
    IF result.kind = "error" THEN box
    ELSE IF result.detected THEN VisionBox(result) ELSE NoBox

\* The local loop effect: it starts detectLoop unless one of its guards holds.
LocalGuard(det, detecting, vision) ==
    det # "null" /\ detecting /\ ~vision

\* The cleanup of the local loop effect.
CancelKeep(pc) == pc

CancelAnimation(pc) == "off"

\* The synchronous part of one detectLoop call of the local strategy.  (A
\* frame whose result will re-run the draw effect, a detection or the loss of
\* the box held, is followed while Room holds.)
FusLoopEnter(ready, inference, det) ==
    /\ (ready /\ (DetectBottle(det, inference) # NoBox \/ detectedBox # NoBox)) => Room
    /\ loopPc' = IF ready THEN "await" ELSE "scheduled"
    /\ loopResult' = IF ready THEN DetectBottle(det, inference) ELSE NoBox
    /\ lastOutcome' = IF ready THEN Outcome(det, inference) ELSE lastOutcome

\* getUserMedia resolves: the stream is attached and setupCamera calls
\* getDetector.
FusCameraGranted ==
    /\ NoMicrotask
    /\ camPc = "acquire"
    /\ stream' = "live"
    /\ camPc' = "load"
    /\ UNCHANGED <<mounted, detector, isDetecting, detectedBox, loopPc, loopResult,
                   trackingStatus, lastOutcome, useVision, visionTimer, inflight>>
    /\ GetDetector(ViewCaller)
    /\ UNCHANGED rafQueue
    /\ storeIdle

FusCameraDenied ==
    /\ NoMicrotask
    /\ camPc = "acquire"
    /\ camPc' = "failed"
    /\ UNCHANGED <<mounted, stream, detector, isDetecting, detectedBox, loopPc,
                   loopResult, trackingStatus, lastOutcome, useVision, visionTimer,
                   inflight>>
    /\ UNCHANGED <<rafQueue, loaderVars>>
    /\ storeIdle

\* setupCamera resumes with the detector its getDetector call returned, the
\* singleton, whose load may still be running or may have failed:
\* setDetector, setIsDetecting(true); the local loop effect re-runs and
\* starts detectLoop unless the vision strategy is on.
FusDetectorLoaded(ready, inference) ==
    /\ NoMicrotask
    /\ camPc = "load"
    /\ callPc[ViewCaller] = "done"
    /\ camPc' = "done"
    /\ IF mounted
       THEN /\ detector' = "instance"
            /\ isDetecting' = TRUE
            /\ IF LocalGuard("instance", TRUE, useVision)
               THEN FusLoopEnter(ready, inference, detectorInstance.model)
               ELSE UNCHANGED <<loopPc, loopResult, lastOutcome>>
       ELSE UNCHANGED <<detector, isDetecting, loopPc, loopResult, lastOutcome>>
    /\ UNCHANGED <<mounted, stream, detectedBox, trackingStatus, useVision,
                   visionTimer, inflight>>
    /\ UNCHANGED <<rafQueue, loaderVars>>
    /\ storeIdle

\* The animation frame fires: detectLoop of the local strategy runs again.
FusLoopFire(ready, inference) ==
    /\ NoMicrotask
    /\ loopPc = "scheduled"
    /\ FusLoopEnter(ready, inference, ModelOf(detector))
    /\ UNCHANGED <<mounted, camPc, stream, detector, isDetecting, detectedBox,
                   trackingStatus, useVision, visionTimer, inflight>>
    /\ UNCHANGED <<rafQueue, loaderVars>>
    /\ storeIdle

\* detectLoop resumes after the await: the box is set or cleared and the
\* next animation frame is requested.  A changed box re-runs the draw effect.
FusLoopResume ==
    /\ loopPc = "await"
    /\ detectedBox' = IF loopResult # NoBox THEN LocalBox(loopResult) ELSE NoBox
    /\ loopPc' = "scheduled"
    /\ loopResult' = NoBox
    /\ UNCHANGED <<mounted, camPc, stream, detector, isDetecting, trackingStatus,
                   lastOutcome, useVision, visionTimer, inflight>>
    /\ rafQueue' = CommitBox(rafQueue, detectedBox, detectedBox', annotations[Session])
    /\ UNCHANGED loaderVars
    /\ storeIdle

\* Variant: the toggle arms the interval and makes no immediate call.
ToggleVisionOnLazy ==
    /\ NoMicrotask
    /\ mounted
    /\ ~useVision
    /\ inflight.cur + inflight.stale < MaxInflight
    /\ useVision' = TRUE
    /\ loopPc' = CancelAnimation(loopPc)
    /\ visionTimer' = TRUE
    /\ UNCHANGED <<mounted, camPc, stream, detector, isDetecting, detectedBox,
                   loopResult, trackingStatus, lastOutcome, inflight>>
    /\ UNCHANGED <<rafQueue, loaderVars>>
    /\ storeIdle

\* The operator clicks the toggle while the fast mode is on: the local loop
\* effect is cleaned up, the vision effect arms its interval and makes its
\* immediate call.
ToggleVisionOn ==
    /\ NoMicrotask
    /\ mounted
    /\ ~useVision
    /\ inflight.cur + inflight.stale < MaxInflight
    /\ useVision' = TRUE
    /\ loopPc' = CancelAnimation(loopPc)
    /\ visionTimer' = TRUE
    /\ inflight' = [inflight EXCEPT !.cur = @ + 1]
    /\ UNCHANGED <<mounted, camPc, stream, detector, isDetecting, detectedBox,
                   loopResult, trackingStatus, lastOutcome>>
    /\ UNCHANGED <<rafQueue, loaderVars>>
    /\ storeIdle

\* The operator clicks the toggle while the vision mode is on: the interval
\* is cleared, the requests in flight stay in flight, the local loop effect
\* re-runs.
ToggleVisionOff(ready, inference) ==
    /\ NoMicrotask
    /\ mounted
    /\ useVision
    /\ useVision' = FALSE
    /\ visionTimer' = FALSE
    /\ inflight' = [cur |-> 0, stale |-> inflight.stale + inflight.cur]
    /\ IF LocalGuard(detector, isDetecting, FALSE)
       THEN FusLoopEnter(ready, inference, ModelOf(detector))
       ELSE UNCHANGED <<loopPc, loopResult, lastOutcome>>
    /\ UNCHANGED <<mounted, camPc, stream, detector, isDetecting, detectedBox,
                   trackingStatus>>
    /\ UNCHANGED <<rafQueue, loaderVars>>
    /\ storeIdle

\* The interval fires: detectWithVision draws the frame and posts it.
VisionTick ==
    /\ NoMicrotask
    /\ visionTimer
    /\ inflight.cur + inflight.stale < MaxInflight
    /\ inflight' = [inflight EXCEPT !.cur = @ + 1]
    /\ UNCHANGED <<mounted, camPc, stream, detector, isDetecting, detectedBox,
                   loopPc, loopResult, trackingStatus, lastOutcome, useVision,
                   visionTimer>>
    /\ UNCHANGED <<rafQueue, loaderVars>>
    /\ storeIdle

\* A request issued by the running vision effect comes back.
VisionResponse(result) ==
    /\ NoMicrotask
    /\ inflight.cur > 0
    /\ (result.kind # "error" /\ (ApplyVision(detectedBox, result) # NoBox \/ detectedBox # NoBox))
          => Room
    /\ inflight' = [inflight EXCEPT !.cur = @ - 1]
    /\ detectedBox' = ApplyVision(detectedBox, result)
    /\ UNCHANGED <<mounted, camPc, stream, detector, isDetecting, loopPc,
                   loopResult, trackingStatus, lastOutcome, useVision, visionTimer>>
    /\ rafQueue' = IF result.kind = "error" THEN rafQueue
                    ELSE CommitBox(rafQueue, detectedBox, detectedBox', annotations[Session])
    /\ UNCHANGED loaderVars
    /\ storeIdle

\* A request issued by a vision effect that has been cleaned up comes back:
\* detectWithVision goes on as for any response; only an unmounted
\* component ignores the state update.
StaleVisionResponse(result) ==
    /\ NoMicrotask
    /\ inflight.stale > 0
    /\ (mounted /\ result.kind # "error"
           /\ (ApplyVision(detectedBox, result) # NoBox \/ detectedBox # NoBox)) => Room
    /\ inflight' = [inflight EXCEPT !.stale = @ - 1]
    /\ detectedBox' = IF mounted THEN ApplyVision(detectedBox, result) ELSE detectedBox
    /\ UNCHANGED <<mounted, camPc, stream, detector, isDetecting, loopPc,
                   loopResult, trackingStatus, lastOutcome, useVision, visionTimer>>
    /\ rafQueue' = IF mounted /\ result.kind # "error"
                    THEN CommitBox(rafQueue, detectedBox, detectedBox', annotations[Session])
                    ELSE rafQueue
    /\ UNCHANGED loaderVars
    /\ storeIdle

\* The component unmounts: the cleanups of its effects run.
FusUnmount ==
    /\ NoMicrotask
    /\ mounted
    /\ mounted' = FALSE
    /\ stream' = StopTracks(stream)
    /\ loopPc' = CancelAnimation(loopPc)
    /\ visionTimer' = FALSE
    /\ inflight' = [cur |-> 0, stale |-> inflight.stale + inflight.cur]
    /\ UNCHANGED <<camPc, detector, isDetecting, detectedBox, loopResult,
                   trackingStatus, lastOutcome, useVision>>
    /\ rafQueue' = CancelFirst(rafQueue)
    /\ UNCHANGED loaderVars
    /\ storeIdle

NextFusion ==
    \/ FusCameraGranted
    \/ FusCameraDenied
    \/ \E ready \in BOOLEAN, inf \in LoopInferences : FusDetectorLoaded(ready, inf)
    \/ \E ready \in BOOLEAN, inf \in LoopInferences : FusLoopFire(ready, inf)
    \/ FusLoopResume
    \/ ToggleVisionOn
    \/ \E ready \in BOOLEAN, inf \in LoopInferences : ToggleVisionOff(ready, inf)
    \/ VisionTick
    \/ \E result \in RemoteResults : VisionResponse(result)
    \/ \E result \in RemoteResults : StaleVisionResponse(result)
    \/ FusUnmount
    \/ OverlayDrawPass
    \/ NoMicrotask /\ GetDetector(OtherCaller) /\ loaderIdle
    \/ NoMicrotask /\ LoadModelAdvances /\ loaderIdle
    \/ \E ok \in BOOLEAN : NoMicrotask /\ LoadModelSettles(ok) /\ loaderIdle

SpecFusion == InitRender /\ [][NextFusion]_vars

----------------------------------------------------------------------------
\* ---------------------------------------------------------------------
\* Single calls: one call of the detector or one draw pass, on arguments
\* drawn from bounded sets.
\* ---------------------------------------------------------------------

MaxFrame == 3    \* most candidates in the frame of a followed detector call

\* What model.detectForVideo can do in a followed call.
FrameInferences ==
    { [throws |-> FALSE, detections |-> d] :
          d \in UNION { [1..n -> Candidates] : n \in 0..MaxFrame } }
    \cup { [throws |-> TRUE, detections |-> <<>>] }

\* Calls of yoloDetector.detectBottle(video).
DetectCalls ==
    { [fn |-> "detectBottle", model |-> m, inference |-> inf] :
          m \in {"model", "null"}, inf \in FrameInferences }

\* ---- draw passes of the three overlay variants ----

\* Labels are sequences of characters, so that toLowerCase and includes
\* act on them as they do on strings.
UpperCase == <<"A", "B", "C", "D", "E", "F", "G", "H", "I", "J", "K", "L", "M",
               "N", "O", "P", "Q", "R", "S", "T", "U", "V", "W", "X", "Y", "Z">>

LowerCase == <<"a", "b", "c", "d", "e", "f", "g", "h", "i", "j", "k", "l", "m",
               "n", "o", "p", "q", "r", "s", "t", "u", "v", "w", "x", "y", "z">>

ToLowerChar(ch) ==
    IF \E i \in DOMAIN UpperCase : UpperCase[i] = ch
    THEN LowerCase[CHOOSE i \in DOMAIN UpperCase : UpperCase[i] = ch]
    ELSE ch

\* String.prototype.toLowerCase
ToLowerCase(str) == [i \in 1..Len(str) |-> ToLowerChar(str[i])]

\* String.prototype.includes
Includes(str, pat) ==
    \E k \in 0..(Len(str) - Len(pat)) : SubSeq(str, k + 1, k + Len(pat)) = pat

\* The fixed calibration of the HUD, in hundredths of the box.
calibration ==
    [cap    |-> [xPercent |-> 50, yPercent |-> 15],
     middle |-> [xPercent |-> 50, yPercent |-> 50],
     bottom |-> [xPercent |-> 50, yPercent |-> 85]]

\* The model bounds of the linear variants, in tenths of a model unit.
modelBounds ==
    [minX |-> -5, maxX |-> 5, minY |-> -10, maxY |-> 10, minZ |-> -5, maxZ |-> 5]

\* Annotations handed to a draw pass: position in tenths of a model unit.
DrawAnns ==
    { [id |-> 1, position |-> <<0, 10, 0>>,
       label |-> <<"C", "a", "p", " ", "m", "a", "r", "k", "e", "r">>],
      [id |-> 2, position |-> <<0, -10, 0>>,
       label |-> <<"B", "a", "s", "e">>],
      [id |-> 3, position |-> <<5, 0, 5>>,
       label |-> <<"B", "O", "D", "Y">>],
      [id |-> 4, position |-> <<-5, 5, -5>>,
       label |-> <<"A", "n", "n", "o", "t", "a", "t", "i", "o", "n">>],
      [id |-> 5, position |-> <<-2, -6, 0>>,
       label |-> <<"B", "o", "t", "t", "o", "m", " ", "c", "a", "p">>],
      [id |-> 6, position |-> <<2, 8, 0>>,
       label |-> <<"T", "a", "b", "l", "e", " ", "T", "o", "p">>],
      [id |-> 7, position |-> <<0, 0, 0>>,
       label |-> <<"C", "e", "n", "t", "e", "r">>] }

MaxMarks == 2    \* most annotations handed to one draw pass in the model

\* Boxes a draw pass can find in the component's state: none, boxes with
\* an area, and boxes without one (a detection of no width or no height;
\* in the click-calibrated variant the box after the first click, or after
\* a second click above and left of the first).
DrawBoxes ==
    { NoBox,
      [x |-> 100, y |-> 50, width |-> 200, height |-> 400],
      [x |-> 0, y |-> 0, width |-> 100, height |-> 200],
      [x |-> 40, y |-> 60, width |-> 0, height |-> 0],
      [x |-> 20, y |-> 80, width |-> 100, height |-> 0],
      [x |-> 300, y |-> 200, width |-> -100, height |-> -100] }

\* Draw passes: the variant, the box and the annotations it reads.
DrawCalls ==
    { [fn |-> f, box |-> b, annotations |-> a] :
          f \in {"drawHud", "drawFusion", "drawSimple"},
          b \in DrawBoxes,
          a \in UNION { [1..n -> DrawAnns] : n \in 0..MaxMarks } }

\* Variant of the HUD's guard that only asks for a box.
BoxPresent(box) == box # NoBox

\* detectedBox && detectedBox.width > 0
BoxHasWidth(box) == box # NoBox /\ box.width > 0

\* box && box.width > 0 && box.height > 0
BoxHasArea(box) == box # NoBox /\ box.width > 0 /\ box.height > 0

\* Variant of the lookup that tries bottom / base before cap / top.
AnchorForBottomFirst(annLabel) ==
    LET label == ToLowerCase(annLabel) IN
    IF \/ Includes(label, <<"b", "o", "t", "t", "o", "m">>)
       \/ Includes(label, <<"b", "a", "s", "e">>)
    THEN calibration.bottom
    ELSE IF Includes(label, <<"c", "a", "p">>) \/ Includes(label, <<"t", "o", "p">>)
    THEN calibration.cap
    ELSE IF \/ Includes(label, <<"m", "i", "d", "d", "l", "e">>)
            \/ Includes(label, <<"c", "e", "n", "t", "e", "r">>)
            \/ Includes(label, <<"b", "o", "d", "y">>)
    THEN calibration.middle
    ELSE calibration.cap

\* The calibration point chosen for a label.
AnchorFor(annLabel) ==
    LET label == ToLowerCase(annLabel) IN
    IF Includes(label, <<"c", "a", "p">>) \/ Includes(label, <<"t", "o", "p">>)
    THEN calibration.cap
    ELSE IF \/ Includes(label, <<"m", "i", "d", "d", "l", "e">>)
            \/ Includes(label, <<"c", "e", "n", "t", "e", "r">>)
            \/ Includes(label, <<"b", "o", "d", "y">>)
    THEN calibration.middle
    ELSE IF \/ Includes(label, <<"b", "o", "t", "t", "o", "m">>)
            \/ Includes(label, <<"b", "a", "s", "e">>)
    THEN calibration.bottom
    ELSE calibration.cap

\* Variant of the marker position that is relative to the canvas.
HudMarkerUnanchored(box, ann) ==
    LET point == AnchorFor(ann.label) IN
    [id |-> ann.id,
     x  |-> (point.xPercent * box.width) \div 100,
     y  |-> (point.yPercent * box.height) \div 100]

\* markerX, markerY of the HUD
HudMarker(box, ann) ==
    LET point == AnchorFor(ann.label) IN
    [id |-> ann.id,
     x  |-> box.x + (point.xPercent * box.width) \div 100,
     y  |-> box.y + (point.yPercent * box.height) \div 100]

\* Variant of the linear mapping that does not flip y.
LinearMarkerUpright(box, ann) ==
    LET x3d == ann.position[1]
        y3d == ann.position[2]
    IN [id |-> ann.id,
        x  |-> box.x + ((x3d - modelBounds.minX) * box.width)
                           \div (modelBounds.maxX - modelBounds.minX),
        y  |-> box.y + ((y3d - modelBounds.minY) * box.height)
                           \div (modelBounds.maxY - modelBounds.minY)]

\* Variant of the linear mapping that does not subtract the model minimum.
LinearMarkerFromOrigin(box, ann) ==
    LET x3d == ann.position[1]
        y3d == ann.position[2]
        rangeX == modelBounds.maxX - modelBounds.minX
        rangeY == modelBounds.maxY - modelBounds.minY
    IN [id |-> ann.id,
        x  |-> box.x + (x3d * box.width) \div rangeX,
        y  |-> box.y + ((rangeY - y3d) * box.height) \div rangeY]

\* videoX, videoY of the linear variants: normalizedX * width and
\* (1 - normalizedY) * height, over the common denominator.
LinearMarker(box, ann) ==
    LET x3d == ann.position[1]
        y3d == ann.position[2]
        rangeX == modelBounds.maxX - modelBounds.minX
        rangeY == modelBounds.maxY - modelBounds.minY
    IN [id |-> ann.id,
        x  |-> box.x + ((x3d - modelBounds.minX) * box.width) \div rangeX,
        y  |-> box.y + ((rangeY - (y3d - modelBounds.minY)) * box.height) \div rangeY]

\* One pass of draw in VideoCapture.jsx: the outline, then the markers.
DrawHud(box, anns) ==
    [outline |-> BoxHasWidth(box),
     markers |-> IF BoxHasWidth(box) /\ Len(anns) > 0
                 THEN [i \in 1..Len(anns) |-> HudMarker(box, anns[i])]
                 ELSE <<>>]

\* One pass of draw in the fused component.
DrawFusion(box, anns) ==
    [outline |-> BoxHasArea(box),
     markers |-> IF BoxHasArea(box) /\ Len(anns) > 0
                 THEN [i \in 1..Len(anns) |-> LinearMarker(box, anns[i])]
                 ELSE <<>>]

\* One pass of draw in VideoCapture_Simple.jsx.
DrawSimple(box, anns) ==
    [outline |-> BoxHasArea(box),
     markers |-> IF BoxHasArea(box) /\ Len(anns) > 0
                 THEN [i \in 1..Len(anns) |-> LinearMarker(box, anns[i])]
                 ELSE <<>>]

\* Responses detectWithVision gets: the box it finds in the state, and the
\* parsed result or the failure.
VisionCalls ==
    { [fn |-> "detectWithVision", box |-> b, result |-> r] :
          b \in {NoBox} \cup { LocalBox(ToObject(c)) :
                                   c \in { d \in Candidates : IsBottleLike(d) } },
          r \in RemoteResults }

\* ---- one message event at the listener of useAnnotations ----

MaxStore == 3    \* longest store handed to a followed updater

\* What clicks on the model yield in followed calls.
CallPoints == Points \cup { HandleClick(<<0, -1, 0>>, t) : t \in Times }

\* Entries a store can hold.
StoredAnns ==
    { NewAnn(p, t) : p \in CallPoints, t \in Times }

\* Stores an updater can find.
Stores == UNION { [1..n -> StoredAnns] : n \in 0..MaxStore }

\* Frames of a type the listener has no branch for; string comparison is
\* strict, so another spelling of a known type is such a type.
ForeignFrames ==
    { <<"user_joined", 1>>, <<"annotation_updated", 2>>, <<"ANNOTATION_REMOVED", 1>> }

\* Frames a message event can carry.
IncomingFrames ==
    { StringifyAdded(a) : a \in StoredAnns }
    \cup { StringifyRemoved(id) : id \in RemoveIds }
    \cup ForeignFrames

\* Message events: the store the updater finds and the frame of the event.
MessageCalls ==
    { [fn |-> "handleMessage", annotations |-> s, frame |-> f] :
          s \in Stores, f \in IncomingFrames }

\* The empty text, which JSON.parse rejects with a SyntaxError.
NotJson == <<>>

\* Message events no client of this program sends: an 'annotation_added'
\* object without an annotation, and a body that is not JSON.
EventCalls ==
    { [fn |-> "messageEvent", annotations |-> s, frame |-> f] :
          s \in Stores, f \in { <<"annotation_added">>, NotJson } }

\* Calls of addAnnotation: the store the updater finds, the argument, the
\* value of Date.now() and whether the socket is open.
AddCalls ==
    { [fn |-> "addAnnotation", annotations |-> s, open |-> o, now |-> t,
       annotation |-> [id |-> id, position |-> p.position, label |-> p.label]] :
          s \in Stores, o \in BOOLEAN, t \in Times, id \in InputIds, p \in CallPoints }

\* Calls of removeAnnotation.
RemoveCalls ==
    { [fn |-> "removeAnnotation", annotations |-> s, open |-> o, id |-> id] :
          s \in Stores, o \in BOOLEAN, id \in RemoveIds }

Calls ==
    DetectCalls \cup DrawCalls \cup VisionCalls \cup MessageCalls
        \cup AddCalls \cup RemoveCalls \cup EventCalls

Returned(value) == [returned |-> TRUE, value |-> value]

\* Before a followed call.  A pass of draw is the callback of a pending
\* animation-frame request, made with the box and the annotations the pass
\* reads.
InitSpecCall ==
    /\ InitStore /\ InitView /\ InitHook /\ InitLoader
    /\ input \in Calls
    /\ output = Pending
    /\ rafQueue = IF input.fn \in {"drawHud", "drawFusion", "drawSimple"}
                  THEN <<Request(input.box, input.annotations, TRUE)>>
                  ELSE <<>>
    /\ lastPass = NoPass

callIdle == UNCHANGED <<input, storeVars, viewVars, renderVars, hookVars, loaderVars>>

\* detectBottle runs to its return.
CallDetectBottle ==
    /\ input.fn = "detectBottle"
    /\ ~output.returned
    /\ output' = Returned(DetectBottle(input.model, input.inference))
    /\ callIdle

\* One pass of the HUD's draw, which ends by requesting the next
\* frame.
CallDrawHud ==
    /\ input.fn = "drawHud"
    /\ ~output.returned
    /\ output' = Returned(DrawHud(input.box, input.annotations))
    /\ DrawPass
    /\ UNCHANGED <<input, storeVars, viewVars, hookVars, loaderVars>>

\* One pass of the fused component's draw, which ends by requesting the next
\* frame.
CallDrawFusion ==
    /\ input.fn = "drawFusion"
    /\ ~output.returned
    /\ output' = Returned(DrawFusion(input.box, input.annotations))
    /\ DrawPass
    /\ UNCHANGED <<input, storeVars, viewVars, hookVars, loaderVars>>

\* One pass of the click-calibrated component's draw, which ends by requesting the next
\* frame.
CallDrawSimple ==
    /\ input.fn = "drawSimple"
    /\ ~output.returned
    /\ output' = Returned(DrawSimple(input.box, input.annotations))
    /\ DrawPass
    /\ UNCHANGED <<input, storeVars, viewVars, hookVars, loaderVars>>

\* detectWithVision from the response on: the box it leaves in the state.
CallDetectWithVision ==
    /\ input.fn = "detectWithVision"
    /\ ~output.returned
    /\ output' = Returned(ApplyVision(input.box, input.result))
    /\ callIdle

\* handleMessage runs on one event: the store it leaves and the frames it
\* hands to the socket (it has no send).
CallHandleMessage ==
    /\ input.fn = "handleMessage"
    /\ ~output.returned
    /\ output' = Returned([annotations |-> HandleMessage(input.annotations,
                                                         JsonParse(input.frame)),
                           sent |-> <<>>])
    /\ callIdle

\* handleMessage runs on an event of any sender: JSON.parse throws on a body
\* that is not JSON and the listener ends there; else the branches run on
\* what was parsed.
CallMessageEvent ==
    /\ input.fn = "messageEvent"
    /\ ~output.returned
    /\ output' = Returned([annotations |-> IF input.frame = NotJson
                                           THEN input.annotations
                                           ELSE HandleMessage(input.annotations,
                                                              JsonParse(input.frame)),
                           sent |-> <<>>,
                           threw |-> input.frame = NotJson])
    /\ callIdle

\* addAnnotation runs: the store it leaves and the frame it hands to the
\* socket if that is open.
CallAddAnnotation ==
    /\ input.fn = "addAnnotation"
    /\ ~output.returned
    /\ output' = Returned([annotations |-> LocalAdd(input.annotations, input.annotation,
                                                    input.now),
                           sent |-> IF input.open
                                    THEN <<StringifyAdded(NewAnn(input.annotation,
                                                                 input.now))>>
                                    ELSE <<>>])
    /\ callIdle

\* removeAnnotation runs.
CallRemoveAnnotation ==
    /\ input.fn = "removeAnnotation"
    /\ ~output.returned
    /\ output' = Returned([annotations |-> LocalRemove(input.annotations, input.id),
                           sent |-> IF input.open
                                    THEN <<StringifyRemoved(input.id)>>
                                    ELSE <<>>])
    /\ callIdle

NextCall ==
    \/ CallDetectBottle
    \/ CallAddAnnotation
    \/ CallRemoveAnnotation
    \/ CallHandleMessage
    \/ CallMessageEvent
    \/ CallDetectWithVision
    \/ CallDrawHud
    \/ CallDrawFusion
    \/ CallDrawSimple

SpecCall == InitSpecCall /\ [][NextCall]_vars

\* ---------------------------------------------------------------------
\* SpecRender: the draw effect of an overlay component (the HUD and the
\* fused component share its structure), the state it depends on, and the
\* browser's animation-frame callbacks.
\* ---------------------------------------------------------------------

MaxChains == 3   \* most animation-frame callbacks pending at once in the model

\* Boxes the detection sets.
RenderBoxes ==
    { NoBox,
      [x |-> 100, y |-> 50, width |-> 200, height |-> 400],
      [x |-> 0, y |-> 0, width |-> 100, height |-> 200] }

renderIdle ==
    UNCHANGED <<wsState, reconnectTimer, wire, lastOp, missed, closes, liveSockets,
                mounted, camPc, stream, detector, isDetecting, loopPc, loopResult,
                trackingStatus, lastOutcome, useVision, visionTimer, inflight,
                input, output, connected, cleanedUp, detectorInstance, callPc, handed>>

\* setDetectedBox(b) and the commit that follows.
RenderSetBox(b) ==
    /\ b # NoBox \/ detectedBox # NoBox
    /\ Len(CancelFirst(rafQueue)) < MaxChains
    /\ detectedBox' = b
    /\ rafQueue' = RerunDrawEffect(rafQueue, b, annotations[Session])
    /\ UNCHANGED <<annotations, lastPass>>
    /\ renderIdle

\* The annotations prop changes by a local add, and the commit that follows.
RenderAddAnnotation(annotation, t) ==
    /\ Len(annotations[Session]) < MaxAnns
    /\ Len(CancelFirst(rafQueue)) < MaxChains
    /\ annotations' = [annotations EXCEPT ![Session] = LocalAdd(@, annotation, t)]
    /\ rafQueue' = RerunDrawEffect(rafQueue, detectedBox, annotations'[Session])
    /\ UNCHANGED <<detectedBox, lastPass>>
    /\ renderIdle

NextRender ==
    \/ \E b \in RenderBoxes : RenderSetBox(b)
    \/ \E p \in Points : RenderAddAnnotation(p, p.id)
    \/ DrawPass /\ UNCHANGED <<annotations, detectedBox>> /\ renderIdle

SpecRender == InitRender /\ [][NextRender]_vars

\* Properties of the annotation store and sync protocol.

\* The annotation a click with input id `id` stores when Date.now() is t.
Stored(p, id, t) ==
    [id |-> IF id = Null \/ id = 0 THEN t ELSE id, position |-> p.position, label |-> p.label]

\* The last frame client c handed to its socket.
LastFrame(c) == wire[c][Len(wire[c])]

\* C5: add(annotation) appends the annotation (with its id) to the end of the
\* local sequence whether or not the channel is open, and hands exactly one
\* 'annotation_added' frame carrying that annotation to the socket if the
\* channel is open; if it is not open nothing is sent.  Nothing else changes.
\* (The length test comes first only to spare evaluating the action on steps
\* that cannot be an add by c.)
C5_AddAppendsAndSendsIffOpen ==
    [][\A c \in Clients :
          Len(annotations'[c]) = Len(annotations[c]) + 1 =>
          \A p \in Points, id \in InputIds, t \in Times :
          SyncAdd(c, [id |-> id, position |-> p.position, label |-> p.label], t)
          => LET n == Stored(p, id, t) IN
             /\ annotations'[c] = Append(annotations[c], n)
             /\ wsState[c] = "open"
                   => wire'[c] = Append(wire[c], <<"annotation_added", n.id, n.position, n.label>>)
             /\ wsState[c] # "open" => wire'[c] = wire[c]
             /\ \A d \in Clients \ {c} :
                   wire'[d] = wire[d] /\ annotations'[d] = annotations[d]]_vars

\* C5 witness: an add ran on an open channel; the frame it sent is the last on
\* the wire and carries the annotation now last in the store.
C5_Witness ==
    \E c \in Clients :
       /\ wsState[c] = "open"
       /\ wire[c] # <<>>
       /\ Len(annotations[c]) = 2
       /\ LET a == annotations[c][Len(annotations[c])] IN
             LastFrame(c) = <<"annotation_added", a.id, a.position, a.label>>

\* C6: after remove(null), the remove-all call of resetApp, the caller's
\* store is empty.
C6_RemoveAllClearsStore ==
    lastOp.kind = "removeAll" => annotations[lastOp.client] = <<>>

\* C7: remove(null), the remove-all call of resetApp, hands no frame to the
\* socket, whether the channel is open or not.
C7_RemoveAllSendsNothing ==
    [][\A c \in Clients : SyncRemove(c, Null) => wire' = wire]_vars

\* C8: a frame delivered to an open client changes its store as the local
\* operation with the same argument would (add appends the annotation, remove
\* filters the id), changes no other store, and the listener sends nothing:
\* the receiver's outgoing frames are unchanged and the delivered frame is
\* consumed, not put back on any wire.
C8_ReceiveAppliesLikeLocalAndNeverSends ==
    [][lastOp'.kind \in {"recvAdd", "recvRemove"} =>
       \A s \in Clients, r \in Clients :
          (/\ lastOp'.client = r
           /\ Deliver(s, r)
           /\ wsState[r] = "open")
          => LET frame == Head(wire[s]) IN
             /\ frame[1] = "annotation_added"
                   => \A t \in Times :
                         annotations'[r] =
                            LocalAdd(annotations[r],
                                     [id |-> frame[2], position |-> frame[3], label |-> frame[4]], t)
             /\ frame[1] = "annotation_removed"
                   => annotations'[r] = LocalRemove(annotations[r], frame[2])
             /\ annotations'[s] = annotations[s]
             /\ wire'[r] = wire[r]
             /\ wire'[s] = Tail(wire[s])]_vars

\* C8 witness: a received add was applied to a store that already held an entry.
C8_Witness ==
    /\ lastOp.kind = "recvAdd"
    /\ Len(annotations[lastOp.client]) = 2
    /\ wire[lastOp.client] # <<>>

\* The entries of s whose id is not id, in their order.
Without(s, id) == SelectSeq(s, LAMBDA a : a.id # id)

\* C9: applying an 'annotation_removed' frame leaves no entry with its id and
\* keeps every other entry in place; applied where the id is not present (a
\* second time in a row, or for an id never stored) it leaves the store as it
\* is.  The application is defined for every store.
C9_RemoveFrameIdempotent ==
    [][lastOp'.kind = "recvRemove" =>
       \A s \in Clients, r \in Clients :
          (/\ lastOp'.client = r
           /\ Deliver(s, r)
           /\ wsState[r] = "open"
           /\ Head(wire[s])[1] = "annotation_removed")
          => LET id == Head(wire[s])[2] IN
             /\ id \notin IdsOf(annotations'[r])
             /\ annotations'[r] = Without(annotations[r], id)
             /\ id \notin IdsOf(annotations[r]) => annotations'[r] = annotations[r]
             /\ lastOp'.rep => annotations'[r] = annotations[r]]_vars

\* C9 witness: the same removal of a marker id was applied twice in a row at
\* one client.
C9_Witness ==
    /\ lastOp.kind = "recvRemove"
    /\ lastOp.rep
    /\ lastOp.id # Null

\* C10: when every mutation was made while every client's channel was open,
\* every frame reached the peer and nothing is in flight any more, the
\* clients hold the same set of annotations.
C10_QuiescentStoresAgree ==
    (~missed /\ \A c \in Clients : wire[c] = <<>>)
        => AnnSet(annotations["A"]) = AnnSet(annotations["B"])

----------------------------------------------------------------------------
\* Properties of the overlay view.

\* C1: once a detection cycle has completed, the status is locked if the
\* attempt yielded a box, searching if it yielded none, and lost if the
\* attempt raised an error.
C1_StatusFollowsOutcome ==
    (loopPc # "await")
        => /\ lastOutcome = "box" => trackingStatus = "locked"
           /\ lastOutcome = "none" => trackingStatus = "searching"
           /\ lastOutcome = "exception" => trackingStatus = "lost"

\* C4: once the view is torn down no camera stream it obtained is live.
C4_CameraReleasedOnTeardown ==
    ~mounted => stream # "live"

\* C2 (as stated): a remote response arriving after the remote strategy was
\* toggled off or the view torn down never changes detectedBox.
C2_StaleResponseDiscarded ==
    [][(\E result \in RemoteResults : StaleVisionResponse(result))
          /\ (~useVision \/ ~mounted)
       => detectedBox' = detectedBox]_vars

\* C3: at most one strategy does periodic work.  With the vision flag on (or
\* the view gone) no animation-frame cycle of the local strategy is pending
\* or running; with the flag off (or the view gone) the interval of the
\* remote strategy is not armed, so no tick and no request can follow.
C3_OneStrategyActive ==
    /\ (useVision \/ ~mounted) => loopPc = "off"
    /\ (~useVision \/ ~mounted) => ~visionTimer

\* Reached: the toggle went back to the fast mode with a remote request still
\* in flight, and the local loop is running again.
C3_Witness ==
    /\ mounted
    /\ ~useVision
    /\ inflight.stale > 0
    /\ loopPc = "scheduled"
    /\ detectedBox # NoBox

\* C11: in every reachable state the ids of a client's annotation sequence
\* are pairwise different.
C11_IdsUnique ==
    \A c \in Clients :
       \A i \in 1..Len(annotations[c]), j \in 1..Len(annotations[c]) :
          i # j => annotations[c][i].id # annotations[c][j].id

----------------------------------------------------------------------------
\* Properties of the channel.

\* C12: whenever the session's channel has closed, a new connection attempt
\* is eventually made, after every close, however many there have been.
C12_CloseLeadsToReconnect ==
    (wsState[Session] = "closed") ~> (wsState[Session] = "connecting")

\* C12 witness: the last close the network inflicts has been followed by a
\* connection attempt, as the earlier ones were.
C12_Witness ==
    /\ closes[Session] = MaxCloses
    /\ lastOp.kind = "connect"
    /\ wsState[Session] = "connecting"

\* A callback of the channel itself: open, close, error or reconnect.
ChannelEvent ==
    ChanOpen \/ ChanClose \/ ChanError \/ ChanConnect

\* C13: open, close and reconnect (and error) leave the annotation sequences
\* as they are and hand nothing to the socket: no snapshot, no replay of
\* what was added or removed while the channel was not open.
C13_ChannelEventsLeaveStoreAndSendNothing ==
    [][ChannelEvent => (annotations' = annotations /\ wire' = wire)]_vars

\* C13 witness: the channel has just opened again after a close, the session
\* holds an annotation it added while the channel was not open, and nothing
\* is on its way to the peer.
C13_Witness ==
    /\ lastOp.kind = "open"
    /\ closes[Session] > 0
    /\ missed
    /\ annotations[Session] # <<>>
    /\ wire[Session] = <<>>

\* C14: an error event schedules nothing: it leaves the reconnect timer, the
\* socket and the number of live sockets as they are; a step that arms the
\* reconnect timer is a close event.
C14_OnlyCloseSchedulesReconnect ==
    [][/\ ChanError => /\ reconnectTimer' = reconnectTimer
                       /\ wsState' = wsState
                       /\ liveSockets' = liveSockets
       /\ (reconnectTimer'[Session] /\ ~reconnectTimer[Session]) => ChanClose]_vars

\* C14 witness: an error event has just been handled on a live socket after
\* an earlier close and reconnect, and no reconnect timer is armed.
C14_Witness ==
    /\ lastOp.kind = "error"
    /\ closes[Session] > 0
    /\ wsState[Session] \in {"connecting", "open"}
    /\ ~reconnectTimer[Session]

\* C15: the session has at most one socket that is connecting or open, namely
\* the one it holds, and the reconnect timer is armed only while that socket
\* is closed, so connect() runs only after the previous connection closed.
C15_SingleConnection ==
    /\ liveSockets[Session] <= 1
    /\ liveSockets[Session] = 1 <=> wsState[Session] \in {"connecting", "open"}
    /\ reconnectTimer[Session] => wsState[Session] = "closed"

\* C15 witness: after the last close the network inflicts the session is
\* connected again, still with one socket.
C15_Witness ==
    /\ closes[Session] = MaxCloses
    /\ wsState[Session] = "open"
    /\ liveSockets[Session] = 1

\* ---------------------------------------------------------------------
\* Properties of single calls.
\* ---------------------------------------------------------------------

\* The categories the local detector may return.
AllowList == {"bottle", "cup", "wine glass"}

\* C16: the local detector returns at most one detection per frame: none
\* when the frame has no allow-listed candidate (or the inference fails or
\* there is no model), else an allow-listed candidate of the frame whose
\* confidence no other allow-listed candidate of the frame exceeds; a
\* candidate of any other category is never returned.
C16_BestAllowListed ==
    (input.fn = "detectBottle" /\ output.returned) =>
        LET dets == input.inference.detections
            usable == input.model = "model" /\ ~input.inference.throws
            allowed == { i \in 1..Len(dets) : dets[i].categoryName \in AllowList }
        IN  IF ~usable \/ allowed = {}
            THEN output.value = NoBox
            ELSE \E i \in allowed :
                    /\ output.value.class = dets[i].categoryName
                    /\ output.value.score = dets[i].score
                    /\ output.value.bbox.x = dets[i].boundingBox.originX
                    /\ output.value.bbox.y = dets[i].boundingBox.originY
                    /\ output.value.bbox.width = dets[i].boundingBox.width
                    /\ output.value.bbox.height = dets[i].boundingBox.height
                    /\ \A j \in allowed : dets[j].score <= dets[i].score

\* The frame {person 0.9, bottle 0.4, chair 0.95} has returned the bottle.
C16_Witness ==
    /\ input.fn = "detectBottle"
    /\ input.model = "model"
    /\ ~input.inference.throws
    /\ Len(input.inference.detections) = 3
    /\ input.inference.detections[1].categoryName = "person"
    /\ input.inference.detections[1].score = 90
    /\ input.inference.detections[2].categoryName = "bottle"
    /\ input.inference.detections[2].score = 40
    /\ input.inference.detections[3].categoryName = "chair"
    /\ input.inference.detections[3].score = 95
    /\ output.returned
    /\ output.value.class = "bottle"
    /\ output.value.score = 40

\* The label "Cap marker".
CapMarkerLabel == <<"C", "a", "p", " ", "m", "a", "r", "k", "e", "r">>

\* C17: for a valid box the HUD places every annotation at
\* (box.x + xFraction * box.width, box.y + yFraction * box.height) of the
\* anchor matched by its label; the label "Cap marker" matches the cap
\* anchor (0.5, 0.15), and in the box {x 100, y 50, w 200, h 400} it is
\* placed at pixel (200, 110).
C17_AnchorResolution ==
    (/\ input.fn = "drawHud"
     /\ output.returned
     /\ input.box # NoBox
     /\ input.box.width > 0
     /\ input.box.height > 0) =>
        /\ Len(output.value.markers) = Len(input.annotations)
        /\ \A i \in 1..Len(input.annotations) :
              LET ann == input.annotations[i]
                  m == output.value.markers[i]
                  anchor == AnchorFor(ann.label)
              IN /\ 100 * (m.x - input.box.x) = anchor.xPercent * input.box.width
                 /\ 100 * (m.y - input.box.y) = anchor.yPercent * input.box.height
                 /\ ann.label = CapMarkerLabel =>
                       /\ 100 * (m.x - input.box.x) = 50 * input.box.width
                       /\ 100 * (m.y - input.box.y) = 15 * input.box.height
                       /\ input.box = [x |-> 100, y |-> 50, width |-> 200, height |-> 400]
                             => (m.x = 200 /\ m.y = 110)

\* The HUD has placed "Cap marker" in the box {100, 50, 200, 400}.
C17_Witness ==
    /\ input.fn = "drawHud"
    /\ output.returned
    /\ input.box = [x |-> 100, y |-> 50, width |-> 200, height |-> 400]
    /\ Len(input.annotations) = 2
    /\ input.annotations[1].label = CapMarkerLabel
    /\ input.annotations[2].label = <<"B", "a", "s", "e">>
    /\ output.value.markers[1].x = 200
    /\ output.value.markers[1].y = 110
    /\ output.value.markers[2].y = 390

\* C18: with the model bounds minY = -1, maxY = 1 the linear variants place
\* an annotation at pixelY = box.y + (1 - normalizedY) * box.height, where
\* normalizedY = (y - minY) / (maxY - minY); in the box {x 0, y 0, w 100,
\* h 200} model y = 1 is placed at pixel y 0 and model y = -1 at pixel y 200.
\* Model coordinates are in tenths.
C18_LinearMappingInvertsY ==
    (/\ input.fn \in {"drawFusion", "drawSimple"}
     /\ output.returned
     /\ input.box # NoBox
     /\ input.box.width > 0
     /\ input.box.height > 0) =>
        /\ Len(output.value.markers) = Len(input.annotations)
        /\ \A i \in 1..Len(input.annotations) :
              LET y3d == input.annotations[i].position[2]
                  m == output.value.markers[i]
              IN /\ 20 * (m.y - input.box.y) = (20 - (y3d + 10)) * input.box.height
                 /\ input.box = [x |-> 0, y |-> 0, width |-> 100, height |-> 200] =>
                       /\ y3d = 10 => m.y = 0
                       /\ y3d = -10 => m.y = 200

\* A linear variant has placed model y = 1 and model y = -1 in the box
\* {0, 0, 100, 200}.
C18_Witness ==
    /\ input.fn = "drawSimple"
    /\ output.returned
    /\ input.box = [x |-> 0, y |-> 0, width |-> 100, height |-> 200]
    /\ Len(input.annotations) = 2
    /\ input.annotations[1].position[2] = 10
    /\ input.annotations[2].position[2] = -10
    /\ output.value.markers[1].y = 0
    /\ output.value.markers[2].y = 200

\* C20: whatever the annotations, a draw pass that finds no box, or a box
\* of width <= 0, resolves no pixel position and draws no marker, in every
\* overlay variant.
C20_NoBoxNoMarkers ==
    (/\ input.fn \in {"drawHud", "drawFusion", "drawSimple"}
     /\ output.returned
     /\ (input.box = NoBox \/ input.box.width <= 0)) =>
        output.value.markers = <<>>

\* The HUD has drawn a pass with two annotations and a box of width 0.
C20_Witness ==
    /\ input.fn = "drawHud"
    /\ output.returned
    /\ input.box # NoBox
    /\ input.box.width = 0
    /\ Len(input.annotations) = 2
    /\ output.value.markers = <<>>

\* C19: a detected remote result is used only rescaled: the bounding box
\* x, y, width, height and the x, y of every sub-landmark are multiplied by
\* (nativeWidth / downsampleWidth, nativeHeight / downsampleHeight), which
\* for the component's fixed sizes 1280 x 720 and 640 x 480 is (2, 1.5).
\* The rule is stated cross-multiplied.  (At a downsample size of 320 x 240
\* the same rule takes (160, 120, 50, 50) to (640, 360, 200, 150); the
\* component takes it to (320, 180, 100, 75).)
C19_RemoteResultRescaled ==
    (/\ input.fn = "detectWithVision"
     /\ output.returned
     /\ input.result.kind = "result"
     /\ input.result.detected) =>
        LET bbox == input.result.bbox
            parts == input.result.parts
            box == output.value
            ScaledX(out, in) == out * DownWidth = in * NativeWidth
            ScaledY(out, in) == out * DownHeight = in * NativeHeight
        IN /\ ScaledX(box.x, bbox.x)
           /\ ScaledY(box.y, bbox.y)
           /\ ScaledX(box.width, bbox.width)
           /\ ScaledY(box.height, bbox.height)
           /\ (parts = NoParts) = (box.parts = NoParts)
           /\ parts # NoParts =>
                 /\ ScaledX(box.parts.cap.x, parts.cap.x)
                 /\ ScaledY(box.parts.cap.y, parts.cap.y)
                 /\ ScaledX(box.parts.middle.x, parts.middle.x)
                 /\ ScaledY(box.parts.middle.y, parts.middle.y)
                 /\ ScaledX(box.parts.bottom.x, parts.bottom.x)
                 /\ ScaledY(box.parts.bottom.y, parts.bottom.y)
           /\ bbox = [x |-> 160, y |-> 120, width |-> 50, height |-> 50] =>
                 /\ box.x = (160 * 1280) \div 640
                 /\ box.y = (120 * 720) \div 480
                 /\ box.width = (50 * 1280) \div 640
                 /\ box.height = (50 * 720) \div 480

\* The remote result with bbox (160, 120, 50, 50) and sub-landmarks has been
\* applied, and the state holds the box (320, 180, 100, 75).
C19_Witness ==
    /\ input.fn = "detectWithVision"
    /\ output.returned
    /\ input.result.kind = "result"
    /\ input.result.detected
    /\ input.result.bbox = [x |-> 160, y |-> 120, width |-> 50, height |-> 50]
    /\ input.result.parts # NoParts
    /\ output.value.x = 320
    /\ output.value.y = 180
    /\ output.value.width = 100
    /\ output.value.height = 75
    /\ output.value.parts.cap = [x |-> 368, y |-> 189]

\* C21: in every overlay variant a draw pass that finds a box of width <= 0
\* or of height <= 0 draws no box outline and no annotation marker.
C21_DegenerateBoxDrawsNothing ==
    (/\ input.fn \in {"drawHud", "drawFusion", "drawSimple"}
     /\ output.returned
     /\ input.box # NoBox
     /\ (input.box.width <= 0 \/ input.box.height <= 0)) =>
        /\ ~output.value.outline
        /\ output.value.markers = <<>>

\* C22: a detection cycle that fails leaves no DetectionBox, in either
\* strategy: when the local detector threw, the box is absent once detectLoop
\* has resumed (and the loop is scheduled again), and when a remote request
\* or the handling of its response failed, the box is absent once
\* detectWithVision has finished.
C22_FailedCycleLeavesNoBox ==
    [][/\ (loopPc = "await" /\ lastOutcome = "exception" /\ FusLoopResume)
             => (detectedBox' = NoBox /\ loopPc' = "scheduled")
       /\ \A result \in RemoteResults :
             (result.kind = "error" /\ mounted /\ VisionResponse(result))
             => detectedBox' = NoBox]_vars

\* C23: a message event whose type is neither 'annotation_added' nor
\* 'annotation_removed' is ignored: the listener returns with the store as
\* it found it and hands nothing to the socket.
C23_UnknownTypeIgnored ==
    (/\ input.fn = "handleMessage"
     /\ output.returned
     /\ input.frame[1] \notin {"annotation_added", "annotation_removed"}) =>
        /\ output.value.annotations = input.annotations
        /\ output.value.sent = <<>>

\* The listener has handled a frame of an unknown type that names the id of
\* a stored entry, and the store of two entries is as it was.
C23_Witness ==
    /\ input.fn = "handleMessage"
    /\ output.returned
    /\ input.frame \in ForeignFrames
    /\ Len(input.annotations) = 2
    /\ input.frame[2] \in IdsOf(input.annotations)
    /\ output.value.annotations = input.annotations

\* C24: every remote response that carries a result is applied when it
\* arrives, however many requests are in flight and whichever of them it
\* answers (requests of a cleaned-up effect included, while the component is
\* mounted): after it the DetectionBox is the box of that response, rescaled,
\* or absent if the response reports no detection.
C24_LastResponseWins ==
    [][\A result \in RemoteResults :
          (/\ result.kind = "result"
           /\ mounted
           /\ (VisionResponse(result) \/ StaleVisionResponse(result)))
          => IF result.detected
             THEN /\ detectedBox' # NoBox
                  /\ detectedBox'.source = "gpt-4v"
                  /\ detectedBox'.score = result.confidence
                  /\ detectedBox'.x * DownWidth = result.bbox.x * NativeWidth
                  /\ detectedBox'.y * DownHeight = result.bbox.y * NativeHeight
                  /\ detectedBox'.width * DownWidth = result.bbox.width * NativeWidth
                  /\ detectedBox'.height * DownHeight = result.bbox.height * NativeHeight
             ELSE detectedBox' = NoBox]_vars

\* A response has been applied while another request is still in flight.
C24_Witness ==
    /\ mounted
    /\ useVision
    /\ inflight.cur >= 1
    /\ detectedBox # NoBox
    /\ detectedBox.source = "gpt-4v"

\* C25: once camera acquisition has failed it is not retried and no
\* detection cycle of either strategy starts: the local loop stays off and
\* no further remote request is issued.
C25_NoCycleAfterCameraFailure ==
    [][camPc = "failed" =>
          /\ camPc' = "failed"
          /\ loopPc' = "off"
          /\ inflight'.cur + inflight'.stale <= inflight.cur + inflight.stale]_vars

\* ---------------------------------------------------------------------
\* Properties of the draw effect.
\* ---------------------------------------------------------------------

\* C26: every draw pass draws the DetectionBox and the annotation sequence
\* that are current when it runs; no pass draws values that have been
\* replaced.
C26_PassDrawsCurrentState ==
    [][DrawPass =>
          /\ lastPass'.box = detectedBox
          /\ lastPass'.annotations = annotations[Session]]_vars

\* The anchor the lookup rule gives each label handed to a draw pass, by
\* the id of its annotation: "Cap marker" and "Table Top" name the cap
\* category, "BODY" and "Center" the middle category, "Base" the bottom
\* category, "Bottom cap" names bottom and cap, "Annotation" names none.
ExpectedAnchor ==
    [i \in 1..7 |->
        CASE i \in {1, 6} -> "cap"
          [] i \in {3, 7} -> "middle"
          [] i = 2        -> "bottom"
          [] i = 5        -> "cap"
          [] i = 4        -> "cap"]

\* The anchors as fractions of the box, in hundredths.
AnchorFractions ==
    [cap |-> <<50, 15>>, middle |-> <<50, 50>>, bottom |-> <<50, 85>>]

\* C27: the HUD looks the anchor up by case-insensitive substring match of
\* the label, cap / top first, then middle / center / body, then bottom /
\* base; a label naming both bottom and cap gets the cap anchor, and a label
\* naming no category gets the default, the cap anchor.
C27_AnchorLookupPriority ==
    (/\ input.fn = "drawHud"
     /\ output.returned
     /\ input.box # NoBox
     /\ input.box.width > 0
     /\ input.box.height > 0) =>
        \A i \in 1..Len(input.annotations) :
            LET ann == input.annotations[i]
                m == output.value.markers[i]
                f == AnchorFractions[ExpectedAnchor[ann.id]]
            IN /\ 100 * (m.x - input.box.x) = f[1] * input.box.width
               /\ 100 * (m.y - input.box.y) = f[2] * input.box.height

\* The HUD has placed "Bottom cap" and "Annotation" at the cap anchor of the
\* box {100, 50, 200, 400}.
C27_Witness ==
    /\ input.fn = "drawHud"
    /\ output.returned
    /\ input.box = [x |-> 100, y |-> 50, width |-> 200, height |-> 400]
    /\ Len(input.annotations) = 2
    /\ input.annotations[1].label = <<"B", "o", "t", "t", "o", "m", " ", "c", "a", "p">>
    /\ input.annotations[2].label = <<"A", "n", "n", "o", "t", "a", "t", "i", "o", "n">>
    /\ output.value.markers[1].y = 110
    /\ output.value.markers[2].y = 110

\* ---------------------------------------------------------------------
\* Properties of the tracking status.
\* ---------------------------------------------------------------------

\* C28: the status a detection cycle leaves depends on the outcome of that
\* cycle alone, whatever the status was: locked if the cycle yielded a box,
\* searching if it yielded none, lost if the attempt raised; and after every
\* cycle the loop has requested the next frame.
C28_StatusFollowsCycleOnly ==
    [][HudLoopResume =>
          /\ (loopResult # NoBox /\ loopResult # Thrown) => trackingStatus' = "locked"
          /\ loopResult = NoBox => trackingStatus' = "searching"
          /\ loopResult = Thrown => trackingStatus' = "lost"
          /\ loopPc' = "scheduled"]_vars

\* A cycle that found nothing has set the status to searching after an
\* earlier cycle had locked (the box of that cycle is still held), and the
\* next frame is requested.
C28_Witness ==
    /\ trackingStatus = "searching"
    /\ lastOutcome = "none"
    /\ detectedBox # NoBox
    /\ loopPc = "scheduled"

\* ---------------------------------------------------------------------
\* Properties of the store updaters.
\* ---------------------------------------------------------------------

\* The entry a frame of type 'annotation_added' carries.
Carried(frame) == [id |-> frame[2], position |-> frame[3], label |-> frame[4]]

\* C29: the store keeps insertion order.  A local add and a received
\* 'annotation_added' leave the store they found with the annotation put at
\* its end; a local remove and a received 'annotation_removed' leave the
\* entries whose id differs from the given one, all of them, in the order
\* they had.
C29_InsertionOrderKept ==
    (output.returned /\ input.fn \in {"addAnnotation", "removeAnnotation", "handleMessage"}) =>
        LET old == input.annotations
            new == output.value.annotations
        IN /\ input.fn = "addAnnotation" =>
                 /\ Len(new) = Len(old) + 1
                 /\ SubSeq(new, 1, Len(old)) = old
                 /\ new[Len(new)].position = input.annotation.position
                 /\ new[Len(new)].label = input.annotation.label
           /\ (input.fn = "handleMessage" /\ input.frame[1] = "annotation_added") =>
                 new = old \o <<Carried(input.frame)>>
           /\ input.fn = "removeAnnotation" => new = Without(old, input.id)
           /\ (input.fn = "handleMessage" /\ input.frame[1] = "annotation_removed") =>
                 new = Without(old, input.frame[2])

\* A removal has taken the middle entry out of a store of three different
\* entries, and the other two are left in their order.
C29_Witness ==
    /\ input.fn = "removeAnnotation"
    /\ output.returned
    /\ Len(input.annotations) = 3
    /\ input.annotations[1] # input.annotations[3]
    /\ input.annotations[1].id # input.id
    /\ input.annotations[2].id = input.id
    /\ input.annotations[3].id # input.id
    /\ output.value.annotations = <<input.annotations[1], input.annotations[3]>>

\* s is t with some entries left out.
RECURSIVE IsSubSeq(_, _)
IsSubSeq(s, t) ==
    IF s = <<>> THEN TRUE
    ELSE IF t = <<>> THEN FALSE
    ELSE IF Head(s) = Head(t) THEN IsSubSeq(Tail(s), Tail(t))
    ELSE IsSubSeq(s, Tail(t))

\* C30: a stored annotation is never changed.  Whatever a client does and
\* whatever it receives, every entry its store holds afterwards is an entry
\* it held before, with the same id, position and label and in the same
\* order, or the one entry added at the end; and entries leave the store only
\* in a removal, local or received.
C30_StoredEntriesImmutable ==
    [][\A c \in Clients :
          annotations'[c] # annotations[c] =>
             LET old == annotations[c]
                 new == annotations'[c]
             IN /\ \/ (Len(new) = Len(old) + 1 /\ SubSeq(new, 1, Len(old)) = old)
                   \/ IsSubSeq(IF Len(new) > Len(old) THEN SubSeq(new, 1, Len(new) - 1)
                               ELSE new,
                               old)
                /\ Len(new) <= Len(old) =>
                      \/ \E id \in RemoveIds : RemoveAnnotation(c, id)
                      \/ \E s \in Clients :
                            Deliver(s, c) /\ Head(wire[s])[1] = "annotation_removed"]_vars

\* A client holding two entries has applied a received removal of one of
\* them; the other entry is still there.
C30_Witness ==
    \E c \in Clients :
        /\ lastOp.kind = "recvRemove"
        /\ lastOp.client = c
        /\ Len(annotations[c]) = 1
        /\ annotations[c][1].id # lastOp.id
        /\ annotations[c][1].label = "Annotation"

\* C31: addAnnotation assigns an id only to an annotation that has none.  An
\* annotation handed over with an id, whatever its value, is stored at the end
\* of the store with exactly that id and, on an open socket, sent with it.
C31_SuppliedIdKept ==
    (output.returned /\ input.fn = "addAnnotation" /\ input.annotation.id # Null) =>
        LET new == output.value.annotations IN
        /\ new[Len(new)].id = input.annotation.id
        /\ input.open =>
              /\ Len(output.value.sent) = 1
              /\ output.value.sent[1][2] = input.annotation.id

\* C32: when the remote strategy is switched on, one request goes out at
\* once; from then on the interval is armed exactly while the strategy is
\* active, each of its ticks can fire whether or not earlier requests are
\* still in flight and issues exactly one request, and nothing else issues a
\* request.
C32_RequestAtOnceAndOnEveryTick ==
    /\ [](visionTimer <=> (mounted /\ useVision))
    /\ []((visionTimer /\ NoMicrotask /\ inflight.cur + inflight.stale < MaxInflight)
             => ENABLED VisionTick)
    /\ [][/\ (~useVision /\ useVision') =>
                (visionTimer' /\ inflight'.cur = 1 /\ inflight'.stale = inflight.stale)
          /\ VisionTick => inflight' = [inflight EXCEPT !.cur = @ + 1]
          /\ inflight'.cur + inflight'.stale > inflight.cur + inflight.stale =>
                /\ inflight'.cur + inflight'.stale = inflight.cur + inflight.stale + 1
                /\ ToggleVisionOn \/ VisionTick]_vars

\* The remote strategy is on and a tick has issued a request while the
\* request before it had not come back.
C32_Witness ==
    /\ useVision
    /\ visionTimer
    /\ inflight.cur = 2

\* C33: the status is locked only for a valid box.  Whenever the HUD shows
\* locked, the box the cycle stored has a positive width and a positive
\* height.
C33_LockedOnlyForValidBox ==
    trackingStatus = "locked" =>
        /\ detectedBox # NoBox
        /\ detectedBox.width > 0
        /\ detectedBox.height > 0

\* C34: in the HUD overlay status and box agree in every state: the status is
\* locked exactly when a detectedBox is held, so under searching or lost no
\* box of an earlier cycle is left for draw to render.
C34_StatusAndBoxAgree ==
    (trackingStatus = "locked") <=> (detectedBox # NoBox)

\* C35: at most one draw callback is scheduled per overlay view at any time;
\* re-running the draw effect cancels the chain of the effect before it.
C35_OneDrawChain ==
    Len(rafQueue) <= 1

\* ---------------------------------------------------------------------
\* Properties of the channel hook.
\* ---------------------------------------------------------------------

\* C36: once the cleanup of useWebSocket has run, the session's connection
\* is closed, no socket of it is connecting or open, and no reconnect timer
\* is armed, so no connection is made any more.
C36_TeardownClosesForGood ==
    cleanedUp =>
        /\ wsState[Session] = "closed"
        /\ liveSockets[Session] = 0
        /\ ~reconnectTimer[Session]

\* C40: while the hook is mounted its connected flag agrees with the channel
\* in every state: it is true exactly when the session's socket is open, so
\* false at the start, and false from every close until the next socket has
\* opened.
C40_ConnectedFlagAgrees ==
    ~cleanedUp =>
        /\ connected <=> wsState[Session] = "open"
        /\ (closes[Session] = 0 /\ wsState[Session] = "connecting" /\ lastOp.kind # "open")
              => ~connected

\* The flag is true again on the socket opened after the last close the
\* network inflicts, having been false in between.
C40_Witness ==
    /\ ~cleanedUp
    /\ closes[Session] = MaxCloses
    /\ lastOp.kind = "open"
    /\ connected

\* C37: every entry of the store is an annotation.  A message event whose
\* 'annotation_added' object carries no annotation, or whose body is not
\* JSON, leaves the store as the listener found it, with no entry that is
\* not an annotation.
C37_MalformedEventLeavesStore ==
    (output.returned /\ input.fn = "messageEvent") =>
        /\ output.value.annotations = input.annotations
        /\ \A i \in 1..Len(output.value.annotations) :
              output.value.annotations[i] # Undefined

\* ---------------------------------------------------------------------
\* Properties of the detector singleton.
\* ---------------------------------------------------------------------

\* C38: getDetector never hands out a detector whose load is still in
\* progress: whatever the interleaving of the calls, each call resolves only
\* after loadModel has settled on the shared instance.
C38_HandedOnlyAfterLoad ==
    \A k \in Callers : ~handed[k].isLoading

\* C39: with the linear mapping and a box of positive width and height, an
\* annotation whose model x and y lie within the model bounds is placed at a
\* pixel inside the box, its edges included; model minX is placed on the left
\* edge and maxX on the right edge, model maxY on the top edge and minY on
\* the bottom edge.
C39_LinearMappingStaysInBox ==
    (/\ input.fn \in {"drawFusion", "drawSimple"}
     /\ output.returned
     /\ input.box # NoBox
     /\ input.box.width > 0
     /\ input.box.height > 0) =>
        \A i \in 1..Len(input.annotations) :
           LET x3d == input.annotations[i].position[1]
               y3d == input.annotations[i].position[2]
               m == output.value.markers[i]
               box == input.box
           IN (/\ modelBounds.minX <= x3d /\ x3d <= modelBounds.maxX
               /\ modelBounds.minY <= y3d /\ y3d <= modelBounds.maxY) =>
                 /\ box.x <= m.x /\ m.x <= box.x + box.width
                 /\ box.y <= m.y /\ m.y <= box.y + box.height
                 /\ x3d = modelBounds.minX => m.x = box.x
                 /\ x3d = modelBounds.maxX => m.x = box.x + box.width
                 /\ y3d = modelBounds.maxY => m.y = box.y
                 /\ y3d = modelBounds.minY => m.y = box.y + box.height

\* The fused component has placed, in the box {100, 50, 200, 400}, an
\* annotation at model minX on the left edge and one at model maxX on the
\* right edge, both strictly between top and bottom.
C39_Witness ==
    /\ input.fn = "drawFusion"
    /\ output.returned
    /\ input.box = [x |-> 100, y |-> 50, width |-> 200, height |-> 400]
    /\ Len(input.annotations) = 2
    /\ input.annotations[1].position = <<-5, 5, -5>>
    /\ input.annotations[2].position = <<5, 0, 5>>
    /\ output.value.markers[1].x = 100
    /\ output.value.markers[1].y = 150
    /\ output.value.markers[2].x = 300
    /\ output.value.markers[2].y = 250

====
